---- MODULE Spec2Model ----
(***************************************************************************)
(* Model of the car-manual RAG evaluation pipeline:                        *)
(*   - the retrieval metrics of evaluation/evaluate.py (pure functions),   *)
(*   - the evaluation driver main() of evaluation/evaluate.py,             *)
(*   - the aggregator of evaluation/aggregate_results.py,                  *)
(*   - the /search handler of backend.py.                                  *)
(*   - the chunking functions and the ingestion scripts of                 *)
(*     feature_extraction/,                                                *)
(*   - calculate_f1_score of evaluation/evaluate.py.                       *)
(* Floating-point scores are modelled as exact rationals <<n, d>> in       *)
(* lowest terms; 1/log2(idx+2) is a table of hundredths.                   *)
(***************************************************************************)
EXTENDS Integers, Sequences, FiniteSets, TLC

VARIABLES
    fn_results,        \* calculate_*: the `results` argument
    fn_gts,            \* calculate_*: the `ground_truths` argument
    fn_top_k,          \* calculate_*: the `top_k` argument
    fn_pc,             \* "call" before the functions are applied, "returned" after
    fn_out,            \* the five returned values
    \* ---- evaluate.py main() ----
    ground_truths,     \* load_ground_truth(args.ground_truth)
    args,              \* [metrics, top_k]: the parsed command line
    pc,                \* position of main()
    idx,               \* ground-truth queries the retrieval loop has processed
    individual_results,\* the list main() appends a result to per successful query
    loop_i,            \* results the current generator / end_to_end loop has processed
    judge_scores,      \* faithfulness_scores / context_recall_scores of the current loop
    metrics_output,    \* group name -> metrics of that group
    search_calls,      \* every call_search_api call, in call order, and how it ended
    judge_calls,       \* every judging call, in call order, and how it ended
    retrieved_total,   \* chunks the search service has returned so far
    artifact           \* <<>> until save_results writes the output file

    \* ---- aggregate_results.py main() ----
VARIABLES
    ag_dir,            \* the results directory: file name -> file
    ag_args,           \* [summary]: the parsed command line
    ag_pc,             \* position of main()
    ag_df,             \* what load_experiment_results returned: <<>> is None
    ag_csv,            \* <<>> until save_aggregated_results writes the table
    ag_stdout          \* the reports main() printed
    \* ---- backend.py search() ----
VARIABLES
    sv_config,         \* keys of CHUNKING_STRATEGIES
    sv_request,        \* the SearchRequest
    sv_collection,     \* state of the vector store for the strategy's collection
    sv_pc,             \* position of the handler
    sv_car_model,      \* parser_result["car_model"], <<>> is None
    sv_calls,          \* the collaborator calls made, in call order
    sv_response        \* <<>> until the handler answers

    \* ---- feature_extraction: semantic_chunk_text / paragraph_chunk_text ----
VARIABLES
    ck_fn,             \* the chunking function applied
    ck_text,           \* its `text` argument, tokenized
    ck_args,           \* its keyword arguments
    ck_pc,             \* "call" before the function is applied, "returned" after
    ck_out             \* the returned list of chunks

    \* ---- feature_extraction: main() of the ingestion scripts ----
VARIABLES
    in_strategy,       \* which ingestion script runs
    in_args,           \* its parsed command line
    in_docs,           \* per document: the pages of its PDF / its LandingAI files
    in_pc,             \* position of main()
    in_doc,            \* the document being processed, 1 or 2
    in_page,           \* pages of that document ingest_pdf has processed
    chunk_index,       \* ingest_pdf: the counter of written chunks
    in_chunks,         \* LandingAI: per document, what load_and_merge_chunks returned
    in_filtered,       \* LandingAI: per document, what filter_and_clean_chunks returned
    in_collection,     \* the objects added to the collection, in order
    in_log             \* every chunk a chunker or loader produced, in reading order

    \* ---- evaluate.py calculate_f1_score ----
VARIABLES
    f1_generated,      \* the `generated` argument: a text as its whitespace-separated words
    f1_reference,      \* the `reference` argument
    f1_pc,             \* "call" before the function is applied, "returned" after
    f1_out             \* the returned score

fn_vars == <<fn_results, fn_gts, fn_top_k, fn_pc, fn_out>>
ag_vars == <<ag_dir, ag_args, ag_pc, ag_df, ag_csv, ag_stdout>>
sv_vars == <<sv_config, sv_request, sv_collection, sv_pc, sv_car_model, sv_calls,
             sv_response>>
ev_vars == <<ground_truths, args, pc, idx, individual_results, loop_i, judge_scores,
             metrics_output, search_calls, judge_calls, retrieved_total, artifact>>
ck_vars == <<ck_fn, ck_text, ck_args, ck_pc, ck_out>>
in_vars == <<in_strategy, in_args, in_docs, in_pc, in_doc, in_page, chunk_index,
             in_chunks, in_filtered, in_collection, in_log>>
f1_vars == <<f1_generated, f1_reference, f1_pc, f1_out>>
vars == <<fn_vars, ev_vars, ag_vars, sv_vars, ck_vars, in_vars, f1_vars>>

\* what the actions of one component leave alone
not_fn == <<ev_vars, ag_vars, sv_vars, ck_vars, in_vars, f1_vars>>
not_ev == <<fn_vars, ag_vars, sv_vars, ck_vars, in_vars, f1_vars>>
not_ag == <<fn_vars, ev_vars, sv_vars, ck_vars, in_vars, f1_vars>>
not_sv == <<fn_vars, ev_vars, ag_vars, ck_vars, in_vars, f1_vars>>
not_ck == <<fn_vars, ev_vars, ag_vars, sv_vars, in_vars, f1_vars>>
not_in == <<fn_vars, ev_vars, ag_vars, sv_vars, ck_vars, f1_vars>>
not_f1 == <<fn_vars, ev_vars, ag_vars, sv_vars, ck_vars, in_vars>>

(***************************************************************************)
(* Bounds of the model.                                                    *)
(***************************************************************************)
MaxQueries == 2        \* length of a results / ground_truths list
MaxRetrieved == 2      \* retrieved chunks over all queries of one run
MaxGT == 2             \* ground-truth chunks over all queries of one run
MaxTopK == 2           \* largest top_k
MaxFiles == 2          \* files in the results directory
MaxSentences == 3      \* sentences of one text given to a chunking function, and
                       \* of all pages of one ingestion run
MaxPages == 2          \* pages of both PDFs of one ingestion run
MaxElements == 3       \* LandingAI elements of all files of one ingestion run
MaxWords == 3          \* words of a text given to calculate_f1_score

(***************************************************************************)
(* Chunk texts and the embedding model: cosine similarity in hundredths.   *)
(* "A" and "A2" are paraphrases exactly at the default threshold, "A3" is  *)
(* a paraphrase just below it, "B" is unrelated.                           *)
(***************************************************************************)
GTTexts == {"A", "B"}            \* texts of ground-truth chunks
RetrievedTexts == {"A2", "B"}    \* texts of retrieved chunks

cos_sim(a, b) ==
    IF a = b THEN 100
    ELSE IF {a, b} = {"A", "A2"} THEN 85
    ELSE IF {a, b} = {"A", "A3"} THEN 84
    ELSE IF {a, b} = {"A2", "A3"} THEN 90
    ELSE 20

Threshold == 85

(***************************************************************************)
(* Rationals.                                                              *)
(***************************************************************************)
Min(a, b) == IF a <= b THEN a ELSE b

RECURSIVE GCD(_, _)
GCD(a, b) == IF b = 0 THEN a ELSE GCD(b, a % b)

Rat(n, d) == LET g == GCD(n, d) IN IF n = 0 THEN <<0, 1>> ELSE <<n \div g, d \div g>>
Zero == <<0, 1>>
One == <<1, 1>>
RAdd(a, b) == Rat(a[1] * b[2] + b[1] * a[2], a[2] * b[2])
RDivInt(a, k) == Rat(a[1], a[2] * k)
RDiv(a, b) == Rat(a[1] * b[2], a[2] * b[1])
RMul(a, b) == Rat(a[1] * b[1], a[2] * b[2])
RLeq(a, b) == a[1] * b[2] <= b[1] * a[2]
RLess(a, b) == a[1] * b[2] < b[1] * a[2]
InUnit(a) == RLeq(Zero, a) /\ RLeq(a, One)

RECURSIVE RSum(_)
RSum(s) == IF s = <<>> THEN Zero ELSE RAdd(s[1], RSum(Tail(s)))

\* sum(xs) / len(xs) if xs else 1.0: the wrong value for an empty list
MeanEmptyIsOne(s) == IF s # <<>> THEN RDivInt(RSum(s), Len(s)) ELSE One

\* sum(xs) / len(xs) if xs else 0.0
Mean(s) == IF s # <<>> THEN RDivInt(RSum(s), Len(s)) ELSE Zero

\* lst[:k] for k >= 0
Take(s, k) == SubSeq(s, 1, Min(k, Len(s)))

\* the indices zip(results, gts) runs over
ZipLen(results, gts) == Min(Len(results), Len(gts))

\* the indices of s, in order, that satisfy P
Indices(n, P(_)) == SelectSeq([i \in 1..n |-> i], P)

(***************************************************************************)
(* evaluate.py: the relevance judge and the retrieval metrics.             *)
(***************************************************************************)
\* `similarity > threshold` for the test of line 41
is_relevant_chunkStrict(retrieved_chunk_text, ground_truth_chunks, threshold) ==
    \E i \in 1..Len(ground_truth_chunks) :
        cos_sim(retrieved_chunk_text, ground_truth_chunks[i]) > threshold

is_relevant_chunk(retrieved_chunk_text, ground_truth_chunks, threshold) ==
    \E i \in 1..Len(ground_truth_chunks) :
        cos_sim(retrieved_chunk_text, ground_truth_chunks[i]) >= threshold

\* relevance of every chunk of one truncated retrieved list, 1 or 0
Relevances(retrieved_chunks, gt_chunks, threshold) ==
    [j \in 1..Len(retrieved_chunks) |->
        IF is_relevant_chunk(retrieved_chunks[j], gt_chunks, threshold) THEN 1 ELSE 0]

RECURSIVE SumSeq(_)
SumSeq(s) == IF s = <<>> THEN 0 ELSE s[1] + SumSeq(Tail(s))

\* the `break` of line 56 left out: every relevant chunk adds a hit
calculate_hit_rateNoBreak(results, gts, threshold, top_k) ==
    LET n == ZipLen(results, gts)
        hits == SumSeq([i \in 1..n |->
                    SumSeq(Relevances(Take(results[i].retrieved_chunks, top_k),
                                      gts[i].relevant_chunks, threshold))])
    IN  IF results # <<>> THEN Rat(hits, Len(results)) ELSE Zero

calculate_hit_rate(results, gts, threshold, top_k) ==
    LET n == ZipLen(results, gts)
        hit(i) == \E j \in 1..Len(Take(results[i].retrieved_chunks, top_k)) :
                      is_relevant_chunk(results[i].retrieved_chunks[j],
                                        gts[i].relevant_chunks, threshold)
        hits == Cardinality({i \in 1..n : hit(i)})
    IN  IF results # <<>> THEN Rat(hits, Len(results)) ELSE Zero

\* the `continue` of line 67 left out: a query without ground-truth chunks
\* enters the mean with recall 0.0
calculate_recallCountsEmptyGT(results, gts, threshold, top_k) ==
    LET n == ZipLen(results, gts)
        recall(i) ==
            LET gt_chunks == gts[i].relevant_chunks
                rels == Relevances(Take(results[i].retrieved_chunks, top_k),
                                   gt_chunks, threshold)
            IN  IF gt_chunks = <<>> THEN Zero ELSE Rat(SumSeq(rels), Len(gt_chunks))
    IN  Mean([i \in 1..n |-> recall(i)])

calculate_recall(results, gts, threshold, top_k) ==
    LET n == ZipLen(results, gts)
        kept == Indices(n, LAMBDA i : gts[i].relevant_chunks # <<>>)
        recall(i) ==
            LET gt_chunks == gts[i].relevant_chunks
                rels == Relevances(Take(results[i].retrieved_chunks, top_k),
                                   gt_chunks, threshold)
            IN  Rat(SumSeq(rels), Len(gt_chunks))
        recalls == [k \in 1..Len(kept) |-> recall(kept[k])]
    IN  Mean(recalls)

\* 100 / np.log2(idx + 2), rank0 being enumerate's idx, counted from 0
Discount(rank0) ==
    CASE rank0 = 0 -> 100
      [] rank0 = 1 -> 63
      [] rank0 = 2 -> 50
      [] rank0 = 3 -> 43
      [] rank0 = 4 -> 39
      [] OTHER -> 36

\* sum(rel / np.log2(idx + 2) for idx, rel in enumerate(rels)), in hundredths
DCG(rels) == SumSeq([j \in 1..Len(rels) |-> rels[j] * Discount(j - 1)])

\* sorted(relevance_scores): the ideal ranking sorted the wrong way round
SortedAscending(rels) ==
    LET ones == SumSeq(rels)
    IN  [j \in 1..Len(rels) |-> IF j > Len(rels) - ones THEN 1 ELSE 0]

\* sorted(relevance_scores, reverse=True) of a 0/1 list
SortedReverse(rels) ==
    LET ones == SumSeq(rels) IN [j \in 1..Len(rels) |-> IF j <= ones THEN 1 ELSE 0]

\* the guard of lines 94-96 left out and an IDCG of 0 read as a perfect ranking
QueryNDCGPerfectWithoutIdeal(retrieved_chunks, gt_chunks, threshold) ==
    LET relevance_scores == Relevances(retrieved_chunks, gt_chunks, threshold)
        dcg == DCG(relevance_scores)
        idcg == DCG(SortedReverse(relevance_scores))
    IN  IF idcg > 0 THEN Rat(dcg, idcg) ELSE One

\* the ideal ranking built from the ground truth: one relevant chunk per
\* ground-truth chunk, as many as the retrieved list has places
QueryNDCGIdealFromGroundTruth(retrieved_chunks, gt_chunks, threshold) ==
    LET relevance_scores == Relevances(retrieved_chunks, gt_chunks, threshold)
        dcg == DCG(relevance_scores)
        ideal_relevances == [j \in 1..Len(gt_chunks) |-> 1]
        idcg == DCG(ideal_relevances)
    IN  IF relevance_scores = <<>> \/ SumSeq(relevance_scores) = 0 THEN Zero
        ELSE IF idcg > 0 THEN Rat(dcg, idcg) ELSE Zero

QueryNDCG(retrieved_chunks, gt_chunks, threshold) ==
    LET relevance_scores == Relevances(retrieved_chunks, gt_chunks, threshold)
        dcg == DCG(relevance_scores)
        ideal_relevances == SortedReverse(relevance_scores)
        idcg == DCG(ideal_relevances)
    IN  IF relevance_scores = <<>> \/ SumSeq(relevance_scores) = 0 THEN Zero
        ELSE IF idcg > 0 THEN Rat(dcg, idcg) ELSE Zero

calculate_ndcg(results, gts, threshold, top_k) ==
    LET n == ZipLen(results, gts)
        ndcg_scores == [i \in 1..n |->
            QueryNDCG(Take(results[i].retrieved_chunks, top_k),
                      gts[i].relevant_chunks, threshold)]
    IN  Mean(ndcg_scores)

\* the `break` of line 119 left out: the last relevant rank wins
QueryRRNoBreak(retrieved_chunks, gt_chunks, threshold) ==
    LET ranks == {r \in 1..Len(retrieved_chunks) :
                     is_relevant_chunk(retrieved_chunks[r], gt_chunks, threshold)}
    IN  IF ranks = {} THEN Zero
        ELSE Rat(1, CHOOSE r \in ranks : \A q \in ranks : r >= q)

QueryRR(retrieved_chunks, gt_chunks, threshold) ==
    LET ranks == {r \in 1..Len(retrieved_chunks) :
                     is_relevant_chunk(retrieved_chunks[r], gt_chunks, threshold)}
    IN  IF ranks = {} THEN Zero
        ELSE Rat(1, CHOOSE r \in ranks : \A q \in ranks : r <= q)

\* the [:top_k] of line 112 left out: the whole retrieved list is ranked
calculate_mrrIgnoresTopK(results, gts, threshold, top_k) ==
    LET n == ZipLen(results, gts)
        rr_scores == [i \in 1..n |->
            QueryRR(results[i].retrieved_chunks, gts[i].relevant_chunks, threshold)]
    IN  Mean(rr_scores)

calculate_mrr(results, gts, threshold, top_k) ==
    LET n == ZipLen(results, gts)
        rr_scores == [i \in 1..n |->
            QueryRR(Take(results[i].retrieved_chunks, top_k),
                    gts[i].relevant_chunks, threshold)]
    IN  Mean(rr_scores)

\* precision_sum divided by the number of relevant chunks found instead of
\* len(gt_chunks)
QueryAPOverRelevantFound(retrieved_chunks, gt_chunks, threshold) ==
    LET rels == Relevances(retrieved_chunks, gt_chunks, threshold)
        relevant_count(rank) == SumSeq(SubSeq(rels, 1, rank))
        precisions == [rank \in 1..Len(rels) |->
            IF rels[rank] = 1 THEN Rat(relevant_count(rank), rank) ELSE Zero]
        precision_sum == RSum(precisions)
    IN  IF SumSeq(rels) > 0 THEN RDivInt(precision_sum, SumSeq(rels)) ELSE Zero

QueryAP(retrieved_chunks, gt_chunks, threshold) ==
    LET rels == Relevances(retrieved_chunks, gt_chunks, threshold)
        relevant_count(rank) == SumSeq(SubSeq(rels, 1, rank))
        precisions == [rank \in 1..Len(rels) |->
            IF rels[rank] = 1 THEN Rat(relevant_count(rank), rank) ELSE Zero]
        precision_sum == RSum(precisions)
    IN  IF gt_chunks # <<>> THEN RDivInt(precision_sum, Len(gt_chunks)) ELSE Zero

calculate_map(results, gts, threshold, top_k) ==
    LET n == ZipLen(results, gts)
        kept == Indices(n, LAMBDA i : gts[i].relevant_chunks # <<>>)
        ap_scores == [k \in 1..Len(kept) |->
            QueryAP(Take(results[kept[k]].retrieved_chunks, top_k),
                    gts[kept[k]].relevant_chunks, threshold)]
    IN  Mean(ap_scores)

(***************************************************************************)
(* Inputs: lists of chunk texts with a bounded total size.                 *)
(***************************************************************************)
SeqsUpTo(S, n) == UNION {[1..k -> S] : k \in 0..n}

\* lists of exactly k chunk lists holding at most `total` chunks altogether
RECURSIVE ChunkListsOfLen(_, _, _)
ChunkListsOfLen(S, k, total) ==
    IF k = 0 THEN {<<>>}
    ELSE UNION {{<<c>> \o rest : rest \in ChunkListsOfLen(S, k - 1, total - Len(c))} :
                    c \in SeqsUpTo(S, total)}

ChunkLists(S, n, total) == UNION {ChunkListsOfLen(S, k, total) : k \in 0..n}

\* the ground-truth file: data['all_questions']
GroundTruthLists(n) ==
    {[i \in 1..Len(ss) |-> [id |-> i, relevant_chunks |-> ss[i]]] :
        ss \in ChunkLists(GTTexts, n, MaxGT)}

ResultLists(n) ==
    {[i \in 1..Len(ss) |-> [retrieved_chunks |-> ss[i]]] :
        ss \in ChunkLists(RetrievedTexts, n, MaxRetrieved)}

(***************************************************************************)
(* The metric functions applied to arbitrary inputs.                       *)
(***************************************************************************)
NoMetrics == [hit_rate |-> Zero, recall |-> Zero, ndcg |-> Zero, mrr |-> Zero, map |-> Zero]

FnInit ==
    /\ fn_results \in ResultLists(MaxQueries)
    /\ fn_gts \in GroundTruthLists(MaxQueries)
    /\ fn_top_k \in 1..MaxTopK
    /\ fn_pc = "call"
    /\ fn_out = NoMetrics

\* the metric functions are not being exercised
FnIdle ==
    /\ fn_results = <<>>
    /\ fn_gts = <<>>
    /\ fn_top_k = 1
    /\ fn_pc = "idle"
    /\ fn_out = NoMetrics

CalculateMetrics ==
    /\ fn_pc = "call"
    /\ fn_pc' = "returned"
    /\ fn_out' = [hit_rate |-> calculate_hit_rate(fn_results, fn_gts, Threshold, fn_top_k),
                  recall   |-> calculate_recall(fn_results, fn_gts, Threshold, fn_top_k),
                  ndcg     |-> calculate_ndcg(fn_results, fn_gts, Threshold, fn_top_k),
                  mrr      |-> calculate_mrr(fn_results, fn_gts, Threshold, fn_top_k),
                  map      |-> calculate_map(fn_results, fn_gts, Threshold, fn_top_k)]
    /\ UNCHANGED <<fn_results, fn_gts, fn_top_k>>
    /\ UNCHANGED not_fn

FnNext == CalculateMetrics

(***************************************************************************)
(* evaluate.py main(): the evaluation driver.                              *)
(***************************************************************************)
Groups == {"retriever", "generator", "end_to_end"}

EmptyMap == [k \in {} |-> 0]

\* round(x, 3) of a non-negative rational, in thousandths (ties to even)
Round3(x) ==
    LET n == x[1]
        d == x[2]
        r0 == n % d
        r1 == (r0 * 10) % d
        r2 == (r1 * 10) % d
        r3 == (r2 * 10) % d
        q == (n \div d) * 1000 + ((r0 * 10) \div d) * 100
                 + ((r1 * 10) \div d) * 10 + ((r2 * 10) \div d)
    IN  IF 2 * r3 > d THEN q + 1
        ELSE IF 2 * r3 < d THEN q
        ELSE IF q % 2 = 0 THEN q ELSE q + 1

\* the block main() runs next after `phase`, given args.metrics
PhaseAfter(phase, metrics) ==
    IF phase = "retrieve" /\ "retriever" \in metrics THEN "retriever"
    ELSE IF phase \in {"retrieve", "retriever"} /\ "generator" \in metrics THEN "generator"
    ELSE IF phase \in {"retrieve", "retriever", "generator"} /\ "end_to_end" \in metrics
         THEN "end_to_end"
    ELSE "save"

EvInit ==
    /\ ground_truths \in GroundTruthLists(MaxQueries)
    /\ args \in [metrics : SUBSET Groups \ {{}}, top_k : 1..MaxTopK]
    /\ pc = "retrieve"
    /\ idx = 0
    /\ individual_results = <<>>
    /\ loop_i = 0
    /\ judge_scores = <<>>
    /\ metrics_output = EmptyMap
    /\ search_calls = <<>>
    /\ judge_calls = <<>>
    /\ retrieved_total = 0
    /\ artifact = <<>>

EvIdle ==
    /\ ground_truths = <<>>
    /\ args = [metrics |-> {"retriever"}, top_k |-> 1]
    /\ pc = "idle"
    /\ idx = 0
    /\ individual_results = <<>>
    /\ loop_i = 0
    /\ judge_scores = <<>>
    /\ metrics_output = EmptyMap
    /\ search_calls = <<>>
    /\ judge_calls = <<>>
    /\ retrieved_total = 0
    /\ artifact = <<>>

\* what the search service can answer: a citation list, or a body whose
\* citations and answer are null (status not_available / no_results)
Responses ==
    {[citations |-> <<c>>, answer |-> <<"answer">>] :
        c \in SeqsUpTo(RetrievedTexts, MaxRetrieved - retrieved_total)}
    \cup {[citations |-> <<>>, answer |-> <<>>]}

\* lines 320-350: call_search_api returns `response`; the result is appended
SearchReturns ==
    /\ pc = "retrieve"
    /\ idx < Len(ground_truths)
    /\ \E response \in Responses :
        LET gt == ground_truths[idx + 1]
            result == [query_id |-> gt.id,
                       system_response |->
                           [retrieved_chunks |-> response.citations,
                            generated_answer |-> response.answer],
                       scores |-> EmptyMap]
        IN  /\ individual_results' = Append(individual_results, result)
            /\ retrieved_total' = retrieved_total
                   + (IF response.citations = <<>> THEN 0 ELSE Len(response.citations[1]))
    /\ search_calls' = Append(search_calls,
           [query_id |-> ground_truths[idx + 1].id, outcome |-> "returned"])
    /\ idx' = idx + 1
    /\ UNCHANGED <<ground_truths, args, pc, loop_i, judge_scores, metrics_output,
                   judge_calls, artifact>>
    /\ UNCHANGED not_ev

\* the exception of call_search_api left uncaught: main() ends at the first failure
SearchRaisesAborts ==
    /\ pc = "retrieve"
    /\ idx < Len(ground_truths)
    /\ search_calls' = Append(search_calls,
           [query_id |-> ground_truths[idx + 1].id, outcome |-> "raised"])
    /\ pc' = "crashed"
    /\ UNCHANGED <<ground_truths, args, idx, individual_results, loop_i, judge_scores,
                   metrics_output, judge_calls, retrieved_total, artifact>>
    /\ UNCHANGED not_ev

\* lines 352-354: call_search_api raises; the query is logged and skipped
SearchRaises ==
    /\ pc = "retrieve"
    /\ idx < Len(ground_truths)
    /\ search_calls' = Append(search_calls,
           [query_id |-> ground_truths[idx + 1].id, outcome |-> "raised"])
    /\ idx' = idx + 1
    /\ UNCHANGED <<ground_truths, args, pc, individual_results, loop_i, judge_scores,
                   metrics_output, judge_calls, retrieved_total, artifact>>
    /\ UNCHANGED not_ev

\* the for loop of line 320 is exhausted
RetrievalLoopEnds ==
    /\ pc = "retrieve"
    /\ idx = Len(ground_truths)
    /\ pc' = PhaseAfter("retrieve", args.metrics)
    /\ UNCHANGED <<ground_truths, args, idx, individual_results, loop_i, judge_scores,
                   metrics_output, search_calls, judge_calls, retrieved_total, artifact>>
    /\ UNCHANGED not_ev

\* [r['system_response'] for r in individual_results]
SystemResponses(results) == [i \in 1..Len(results) |-> results[i].system_response]

\* a system response whose retrieved_chunks is None cannot be sliced or iterated
HasNullChunks(results) ==
    \E i \in 1..Len(results) : results[i].system_response.retrieved_chunks = <<>>

\* the same list with every retrieved_chunks unwrapped
Unwrapped(responses) ==
    [i \in 1..Len(responses) |-> [retrieved_chunks |-> responses[i].retrieved_chunks[1]]]

RetrieverMetrics(responses, gts, threshold, top_k) ==
    [hit_rate   |-> Round3(calculate_hit_rate(responses, gts, threshold, top_k)),
     avg_recall |-> Round3(calculate_recall(responses, gts, threshold, top_k)),
     avg_ndcg   |-> Round3(calculate_ndcg(responses, gts, threshold, top_k)),
     mrr        |-> Round3(calculate_mrr(responses, gts, threshold, top_k)),
     map        |-> Round3(calculate_map(responses, gts, threshold, top_k))]

\* lines 358-407
CalculateRetriever ==
    /\ pc = "retriever"
    /\ IF HasNullChunks(individual_results)
       THEN /\ pc' = "crashed"
            /\ UNCHANGED metrics_output
       ELSE /\ metrics_output' = metrics_output @@
                ("retriever" :> RetrieverMetrics(
                    Unwrapped(SystemResponses(individual_results)),
                    ground_truths, Threshold, args.top_k))
            /\ pc' = PhaseAfter("retriever", args.metrics)
    /\ UNCHANGED <<ground_truths, args, idx, individual_results, loop_i, judge_scores,
                   search_calls, judge_calls, retrieved_total, artifact>>
    /\ UNCHANGED not_ev

\* what the judging collaborator can do with one chat completion
JudgeOutcomes == {"YES", "NO", "raise"}

\* a failed judging call scored 0.0 instead of None
JudgeScoreFailureIsZero(outcome) == IF outcome = "YES" THEN <<One>> ELSE <<Zero>>

\* lines 165-180 and 215-230: 1.0 if "YES" in answer_text else 0.0; None on any exception
JudgeScore(outcome) ==
    IF outcome = "raise" THEN <<>>
    ELSE IF outcome = "YES" THEN <<One>> ELSE <<Zero>>

calculate_faithfulness(outcome) == JudgeScore(outcome)

calculate_context_recall(outcome) == JudgeScore(outcome)

\* result['scores'][key] = value for every key of `keys`
SetScores(results, i, keys, value) ==
    [results EXCEPT ![i].scores = [k \in keys |-> value] @@ @]

\* the body of a judging loop for result i once the judge has given `score`:
\* the judged score is recorded and appended unless it is None, the other
\* scores of the group are recorded always
Judged(results, scores, i, judged_key, other_keys, score) ==
    LET judged == IF score # <<>> THEN SetScores(results, i, {judged_key}, score[1])
                  ELSE results
    IN  [individual_results |-> SetScores(judged, i, other_keys, "computed"),
         judge_scores |-> IF score # <<>> THEN Append(scores, score[1]) ELSE scores]

\* "\n".join([chunk['text'] for chunk in chunks]) raises when chunks is None
NullChunks(result) == result.system_response.retrieved_chunks = <<>>

\* round(sum(xs) / len(xs), 3) if xs else None
AverageOrNull(scores) == IF scores # <<>> THEN <<Round3(Mean(scores))>> ELSE <<>>

\* lines 416-431: one iteration over zip(individual_results, ground_truths)
GeneratorIteration ==
    /\ pc = "generator"
    /\ loop_i < Len(individual_results)
    /\ IF NullChunks(individual_results[loop_i + 1])
       THEN /\ pc' = "crashed"
            /\ UNCHANGED <<individual_results, loop_i, judge_scores, judge_calls>>
       ELSE \E outcome \in JudgeOutcomes :
            LET faith == calculate_faithfulness(outcome)
                after == Judged(individual_results, judge_scores, loop_i + 1,
                                "faithfulness",
                                {"key_facts_coverage", "answer_relevance"}, faith)
            IN  /\ individual_results' = after.individual_results
                /\ judge_scores' = after.judge_scores
                /\ judge_calls' = Append(judge_calls,
                       [group |-> "generator", outcome |-> outcome,
                        query_id |-> individual_results[loop_i + 1].query_id])
                /\ loop_i' = loop_i + 1
                /\ pc' = pc
    /\ UNCHANGED <<ground_truths, args, idx, metrics_output, search_calls,
                   retrieved_total, artifact>>
    /\ UNCHANGED not_ev

\* lines 433-437: the loop is exhausted and the group's averages are stored
GeneratorEnds ==
    /\ pc = "generator"
    /\ loop_i = Len(individual_results)
    /\ metrics_output' = metrics_output @@
           ("generator" :> [avg_faithfulness |-> AverageOrNull(judge_scores)])
    /\ loop_i' = 0
    /\ judge_scores' = <<>>
    /\ pc' = PhaseAfter("generator", args.metrics)
    /\ UNCHANGED <<ground_truths, args, idx, individual_results, search_calls,
                   judge_calls, retrieved_total, artifact>>
    /\ UNCHANGED not_ev

\* lines 447-475: one iteration over zip(individual_results, ground_truths)
EndToEndIteration ==
    /\ pc = "end_to_end"
    /\ loop_i < Len(individual_results)
    /\ IF NullChunks(individual_results[loop_i + 1])
       THEN /\ pc' = "crashed"
            /\ UNCHANGED <<individual_results, loop_i, judge_scores, judge_calls>>
       ELSE \E outcome \in JudgeOutcomes :
            LET ctx_recall == calculate_context_recall(outcome)
                after == Judged(individual_results, judge_scores, loop_i + 1,
                                "context_recall",
                                {"answer_correctness", "f1_score",
                                 "semantic_similarity", "estimated_cost"}, ctx_recall)
            IN  /\ individual_results' = after.individual_results
                /\ judge_scores' = after.judge_scores
                /\ judge_calls' = Append(judge_calls,
                       [group |-> "end_to_end", outcome |-> outcome,
                        query_id |-> individual_results[loop_i + 1].query_id])
                /\ loop_i' = loop_i + 1
                /\ pc' = pc
    /\ UNCHANGED <<ground_truths, args, idx, metrics_output, search_calls,
                   retrieved_total, artifact>>
    /\ UNCHANGED not_ev

\* lines 478-490: the loop is exhausted and the group's averages are stored
EndToEndEnds ==
    /\ pc = "end_to_end"
    /\ loop_i = Len(individual_results)
    /\ metrics_output' = metrics_output @@
           ("end_to_end" :> [avg_context_recall |-> AverageOrNull(judge_scores)])
    /\ loop_i' = 0
    /\ judge_scores' = <<>>
    /\ pc' = PhaseAfter("end_to_end", args.metrics)
    /\ UNCHANGED <<ground_truths, args, idx, individual_results, search_calls,
                   judge_calls, retrieved_total, artifact>>
    /\ UNCHANGED not_ev

\* lines 492-502: save_results writes the artifact
SaveResults ==
    /\ pc = "save"
    /\ artifact' = <<[config |-> [top_k |-> args.top_k,
                                  metrics_evaluated |-> args.metrics,
                                  total_questions |-> Len(ground_truths)],
                      individual_results |-> individual_results,
                      metrics |-> metrics_output]>>
    /\ pc' = "done"
    /\ UNCHANGED <<ground_truths, args, idx, individual_results, loop_i, judge_scores,
                   metrics_output, search_calls, judge_calls, retrieved_total>>
    /\ UNCHANGED not_ev

EvNext ==
    \/ SearchReturns
    \/ SearchRaises
    \/ RetrievalLoopEnds
    \/ CalculateRetriever
    \/ GeneratorIteration
    \/ GeneratorEnds
    \/ EndToEndIteration
    \/ EndToEndEnds
    \/ SaveResults

(***************************************************************************)
(* aggregate_results.py: the aggregator.                                   *)
(***************************************************************************)
ConfigColumns == <<"strategy", "top_k", "search_type", "threshold">>
RetrieverColumns == <<"hit_rate", "avg_recall", "avg_ndcg", "mrr", "map">>
GeneratorColumns == <<"avg_faithfulness", "avg_key_facts_coverage", "avg_answer_relevance">>
EndToEndColumns == <<"avg_context_recall", "avg_answer_correctness", "avg_latency_ms",
                     "min_latency_ms", "max_latency_ms", "p95_latency_ms",
                     "p99_latency_ms", "estimated_cost_per_query">>

\* lines 75-83
column_order ==
    ConfigColumns \o RetrieverColumns \o GeneratorColumns \o EndToEndColumns
        \o <<"total_questions", "source_file">>

Range(f) == {f[x] : x \in DOMAIN f}

\* lines 27-66: the keys of the row built from one artifact
RowKeys(file) ==
    Range(ConfigColumns) \cup {"total_questions", "source_file"}
        \cup (IF "retriever" \in file.groups THEN Range(RetrieverColumns) ELSE {})
        \cup (IF "generator" \in file.groups THEN Range(GeneratorColumns) ELSE {})
        \cup (IF "end_to_end" \in file.groups THEN Range(EndToEndColumns) ELSE {})

\* sorted(json_files), descending: the wrong order
SortedDescending(names) ==
    LET n == Cardinality(names)
    IN  [i \in 1..n |-> CHOOSE x \in names : Cardinality({y \in names : y > x}) = i - 1]

\* sorted(json_files)
SortedFiles(names) ==
    LET n == Cardinality(names)
    IN  [i \in 1..n |-> CHOOSE x \in names : Cardinality({y \in names : y < x}) = i - 1]

\* lines 8-88; None is <<>>, a DataFrame is <<[columns, rows]>>
load_experiment_results(results_dir) ==
    LET json_files == {f \in DOMAIN results_dir : results_dir[f].ext = "json"}
        \* lines 19-71: a file that fails to load is reported and skipped
        loaded == SelectSeq(SortedFiles(json_files), LAMBDA f : results_dir[f].valid)
        \* pd.DataFrame(results): the columns are the keys some row has
        df_columns == UNION {RowKeys(results_dir[loaded[i]]) : i \in 1..Len(loaded)}
        existing_cols == SelectSeq(column_order, LAMBDA col : col \in df_columns)
        cell(f, col) ==
            IF col \notin RowKeys(results_dir[f]) THEN "NaN"
            ELSE IF col = "source_file" THEN <<f>> ELSE "value"
        row(f) == [col \in Range(existing_cols) |-> cell(f, col)]
    IN  IF json_files = {} THEN <<>>
        ELSE <<[columns |-> existing_cols,
                rows |-> [i \in 1..Len(loaded) |-> row(loaded[i])]]>>

\* a file of the results directory: an artifact written by evaluate.py with
\* the metric groups of its run (at least one), a .json file that does not load, or another file
Files ==
    {[ext |-> "json", valid |-> TRUE, groups |-> g] : g \in (SUBSET Groups) \ {{}}}
    \cup {[ext |-> "json", valid |-> FALSE, groups |-> {}],
          [ext |-> "txt", valid |-> FALSE, groups |-> {}]}

AgInit ==
    /\ ag_dir \in UNION {[names -> Files] : names \in SUBSET (1..MaxFiles)}
    /\ ag_args \in [summary : BOOLEAN]
    /\ ag_pc = "load"
    /\ ag_df = <<>>
    /\ ag_csv = <<>>
    /\ ag_stdout = <<>>

AgIdle ==
    /\ ag_dir = EmptyMap
    /\ ag_args = [summary |-> FALSE]
    /\ ag_pc = "idle"
    /\ ag_df = <<>>
    /\ ag_csv = <<>>
    /\ ag_stdout = <<>>

\* `if df is None:` alone: an empty table is taken for a result
AggregateLoadNoneOnly ==
    /\ ag_pc = "load"
    /\ LET df == load_experiment_results(ag_dir)
       IN  /\ ag_df' = df
           /\ IF df = <<>>
              THEN /\ ag_stdout' = Append(ag_stdout, "No results to aggregate")
                   /\ ag_pc' = "done"
              ELSE /\ ag_stdout' = ag_stdout
                   /\ ag_pc' = "save"
    /\ UNCHANGED <<ag_dir, ag_args, ag_csv>>
    /\ UNCHANGED not_ag

\* lines 172-177
AggregateLoad ==
    /\ ag_pc = "load"
    /\ LET df == load_experiment_results(ag_dir)
       IN  /\ ag_df' = df
           /\ IF df = <<>> \/ Len(df[1].rows) = 0
              THEN /\ ag_stdout' = Append(ag_stdout, "No results to aggregate")
                   /\ ag_pc' = "done"
              ELSE /\ ag_stdout' = ag_stdout
                   /\ ag_pc' = "save"
    /\ UNCHANGED <<ag_dir, ag_args, ag_csv>>
    /\ UNCHANGED not_ag

\* line 179: save_aggregated_results
AggregateSave ==
    /\ ag_pc = "save"
    /\ ag_csv' = ag_df
    /\ ag_stdout' = Append(ag_stdout, "Saved aggregated results")
    /\ ag_pc' = "report"
    /\ UNCHANGED <<ag_dir, ag_args, ag_df>>
    /\ UNCHANGED not_ag

\* line 185: the columns the quick summary selects
QuickSummaryColumns == {"strategy", "top_k", "hit_rate", "avg_ndcg", "avg_faithfulness"}

\* lines 181-186: print_summary, or the quick summary, which raises KeyError
\* when the table lacks one of its columns
AggregateReport ==
    /\ ag_pc = "report"
    /\ IF ag_args.summary
       THEN /\ ag_stdout' = Append(ag_stdout, "EXPERIMENT SUMMARY")
            /\ ag_pc' = "done"
       ELSE IF QuickSummaryColumns \subseteq Range(ag_df[1].columns)
            THEN /\ ag_stdout' = Append(ag_stdout, "Quick Summary")
                 /\ ag_pc' = "done"
            ELSE /\ ag_stdout' = ag_stdout
                 /\ ag_pc' = "crashed"
    /\ UNCHANGED <<ag_dir, ag_args, ag_df, ag_csv>>
    /\ UNCHANGED not_ag

AgNext ==
    \/ AggregateLoad
    \/ AggregateSave
    \/ AggregateReport

(***************************************************************************)
(* backend.py: the /search handler.                                        *)
(***************************************************************************)
DEFAULT_STRATEGY == "basic_recursive"

\* utils.py lines 16-27; a query is the set of the car words it holds,
\* lower-cased; the patterns of MG_Astor are tried first
detect_car_model(query) ==
    IF query \cap {"mg", "astor"} # {} THEN <<"MG_Astor">>
    ELSE IF query \cap {"tata", "tiago"} # {} THEN <<"Tata_Tiago">>
    ELSE <<>>

\* the configurations, requests and store states a request can meet
SvInit ==
    /\ sv_config \in SUBSET {"basic_recursive", "semantic_based"}
    /\ sv_request \in [strategy : {"", "basic_recursive", "semantic_based", "unknown"},
                       query : {{}, {"mg"}, {"tiago"}, {"tata", "astor"}},
                       retrieve_only : BOOLEAN]
    /\ sv_collection \in {"exists", "missing", "unreachable"}
    /\ sv_pc = "validate"
    /\ sv_car_model = <<>>
    /\ sv_calls = <<>>
    /\ sv_response = <<>>

SvIdle ==
    /\ sv_config = {}
    /\ sv_request = [strategy |-> "", query |-> {}, retrieve_only |-> FALSE]
    /\ sv_collection = "missing"
    /\ sv_pc = "idle"
    /\ sv_car_model = <<>>
    /\ sv_calls = <<>>
    /\ sv_response = <<>>

\* line 136
Strategy == IF sv_request.strategy # "" THEN sv_request.strategy ELSE DEFAULT_STRATEGY

\* the handler answers: an HTTPException / unhandled exception (code 400,
\* 503, 500) or a SearchResponse (code 200 with its status)
Answer(code, status) ==
    /\ sv_response' = <<[code |-> code, status |-> status]>>
    /\ sv_pc' = "done"

\* the strategy check of lines 137-141 answered as a missing collection
SearchValidateNoStrategyCheck ==
    /\ sv_pc = "validate"
    /\ IF Strategy \notin sv_config
       THEN /\ Answer(503, "error")
            /\ UNCHANGED sv_calls
       ELSE /\ sv_calls' = Append(sv_calls, "collections.exists")
            /\ CASE sv_collection = "exists" ->
                        sv_pc' = "parse" /\ UNCHANGED sv_response
                 [] sv_collection = "missing" -> Answer(503, "error")
                 [] sv_collection = "unreachable" -> Answer(500, "error")
    /\ UNCHANGED <<sv_config, sv_request, sv_collection, sv_car_model>>
    /\ UNCHANGED not_sv

\* lines 136-147, with collection_exists of utils.py lines 85-90; an
\* exception of the vector store is not caught by the handler
SearchValidate ==
    /\ sv_pc = "validate"
    /\ IF Strategy \notin sv_config
       THEN /\ Answer(400, "error")
            /\ UNCHANGED sv_calls
       ELSE /\ sv_calls' = Append(sv_calls, "collections.exists")
            /\ CASE sv_collection = "exists" ->
                        sv_pc' = "parse" /\ UNCHANGED sv_response
                 [] sv_collection = "missing" -> Answer(503, "error")
                 [] sv_collection = "unreachable" -> Answer(500, "error")
    /\ UNCHANGED <<sv_config, sv_request, sv_collection, sv_car_model>>
    /\ UNCHANGED not_sv

\* what the rewriting collaborator names in its CAR_MODEL: line, if it answers
ModelReplies == {"MG_Astor", "Tata_Tiago", "NONE"}

\* the membership test of utils.py line 77 left out: whatever the
\* collaborator writes after CAR_MODEL: becomes the car model
SearchParseTrustsReply ==
    /\ sv_pc = "parse"
    /\ LET detected == detect_car_model(sv_request.query)
       IN  IF detected # <<>>
           THEN /\ sv_calls' = Append(sv_calls, "rewrite_query")
                /\ \/ /\ sv_car_model' = detected
                      /\ sv_pc' = "retrieve"
                      /\ UNCHANGED sv_response
                   \/ /\ Answer(500, "error")
                      /\ UNCHANGED sv_car_model
           ELSE /\ sv_calls' = Append(sv_calls, "detect_and_rewrite")
                /\ \/ \E reply \in ModelReplies :
                          /\ sv_car_model' = <<reply>>
                          /\ sv_pc' = "retrieve"
                          /\ UNCHANGED sv_response
                   \/ /\ Answer(500, "error")
                      /\ UNCHANGED sv_car_model
    /\ UNCHANGED <<sv_config, sv_request, sv_collection>>
    /\ UNCHANGED not_sv

\* lines 149-163, with query_parser_rewriter of utils.py lines 37-83
SearchParse ==
    /\ sv_pc = "parse"
    /\ LET detected == detect_car_model(sv_request.query)
       IN  IF detected # <<>>
           THEN \* rewrite_query: the collaborator rewrites, or raises
                /\ sv_calls' = Append(sv_calls, "rewrite_query")
                /\ \/ /\ sv_car_model' = detected
                      /\ sv_pc' = "retrieve"
                      /\ UNCHANGED sv_response
                   \/ /\ Answer(500, "error")
                      /\ UNCHANGED sv_car_model
           ELSE \* detect_and_rewrite: the collaborator names a model, or raises
                /\ sv_calls' = Append(sv_calls, "detect_and_rewrite")
                /\ \/ \E reply \in ModelReplies :
                          IF reply \in {"MG_Astor", "Tata_Tiago"}
                          THEN /\ sv_car_model' = <<reply>>
                               /\ sv_pc' = "retrieve"
                               /\ UNCHANGED sv_response
                          ELSE /\ Answer(200, "not_available")
                               /\ UNCHANGED sv_car_model
                   \/ /\ Answer(500, "error")
                      /\ UNCHANGED sv_car_model
    /\ UNCHANGED <<sv_config, sv_request, sv_collection>>
    /\ UNCHANGED not_sv

\* lines 165-203 and 224-228: search_weaviate returns chunks, none, or raises
SearchRetrieve ==
    /\ sv_pc = "retrieve"
    /\ sv_calls' = Append(sv_calls, "search_weaviate")
    /\ \/ Answer(500, "error")
       \/ Answer(200, "no_results")
       \/ IF sv_request.retrieve_only
          THEN Answer(200, "success")
          ELSE sv_pc' = "generate" /\ UNCHANGED sv_response
    /\ UNCHANGED <<sv_config, sv_request, sv_collection, sv_car_model>>
    /\ UNCHANGED not_sv

\* lines 205-228: generate_answer returns or raises
SearchGenerate ==
    /\ sv_pc = "generate"
    /\ sv_calls' = Append(sv_calls, "generate_answer")
    /\ \/ Answer(200, "success")
       \/ Answer(500, "error")
    /\ UNCHANGED <<sv_config, sv_request, sv_collection, sv_car_model>>
    /\ UNCHANGED not_sv

SvNext ==
    \/ SearchValidate
    \/ SearchParse
    \/ SearchRetrieve
    \/ SearchGenerate

(***************************************************************************)
(* feature_extraction: the chunking functions.  A sentence is known by its *)
(* length in characters and, for the semantic strategy, its embedding; a   *)
(* text unit is the list of the lengths of its sentences, which single     *)
(* spaces separate; a chunk is the list of units joined by `sep` characters.*)
(***************************************************************************)
SentenceLens == {20, 30, 60}
Embeddings == {<<1, 1, 0>>, <<0, 1, 1>>, <<1, 0, 0>>}
MaxChunkSizes == {50, 60}          \* values of max_chunk_size
SimilarityThresholds == {50}       \* similarity_threshold, in hundredths

\* len(" ".join(unit)) for a unit of sentences
UnitLen(unit) == SumSeq(unit) + (Len(unit) - 1)

RECURSIVE PartsLen(_)
PartsLen(parts) == IF parts = <<>> THEN 0 ELSE UnitLen(parts[1]) + PartsLen(Tail(parts))

\* len(sep.join(parts))
JoinLen(parts, sep) == IF parts = <<>> THEN 0 ELSE PartsLen(parts) + sep * (Len(parts) - 1)

Chunk(parts, sep) == [parts |-> parts, sep |-> sep]

\* the sentences of a list of units, in order
RECURSIVE Flatten(_)
Flatten(parts) == IF parts = <<>> THEN <<>> ELSE parts[1] \o Flatten(Tail(parts))

ChunkLen(chunk) == JoinLen(chunk.parts, chunk.sep)

Dot(a, b) == SumSeq([j \in 1..Len(a) |-> a[j] * b[j]])

\* np.dot(a, b) / (norm(a) * norm(b)) >= threshold, threshold in hundredths
SimilarAtLeast(a, b, threshold) ==
    /\ Dot(a, a) > 0 /\ Dot(b, b) > 0
    /\ Dot(a, b) >= 0
    /\ 10000 * Dot(a, b) * Dot(a, b) >= threshold * threshold * Dot(a, a) * Dot(b, b)

\* lines 162-184 from sentence i on; `embedding` is current_chunk_embedding
\* times 2^halvings, np.mean of two vectors being half their sum
RECURSIVE SemanticLoop(_, _, _, _, _, _, _, _)
SemanticLoop(sentences, i, chunks, current_chunk, embedding, scale, similarity_threshold, max_chunk_size) ==
    IF i > Len(sentences)
    THEN Append(chunks, Chunk(current_chunk, 1))
    ELSE LET sentence == sentences[i]
             projected_length == JoinLen(current_chunk, 1) + sentence.len
         IN  IF /\ SimilarAtLeast(embedding, sentence.emb, similarity_threshold)
                /\ projected_length <= max_chunk_size
             THEN SemanticLoop(sentences, i + 1, chunks,
                               Append(current_chunk, <<sentence.len>>),
                               [j \in 1..Len(embedding) |->
                                   embedding[j] + scale * sentence.emb[j]],
                               2 * scale, similarity_threshold, max_chunk_size)
             ELSE SemanticLoop(sentences, i + 1,
                               Append(chunks, Chunk(current_chunk, 1)),
                               <<<<sentence.len>>>>, sentence.emb, 1,
                               similarity_threshold, max_chunk_size)

\* sentences: what nltk.sent_tokenize(text) returns
semantic_chunk_text(sentences, similarity_threshold, max_chunk_size) ==
    IF Len(sentences) = 0 THEN <<>>
    ELSE IF Len(sentences) = 1 THEN <<Chunk(<<<<sentences[1].len>>>>, 1)>>
    ELSE SemanticLoop(sentences, 2, <<>>, <<<<sentences[1].len>>>>, sentences[1].emb, 1,
                      similarity_threshold, max_chunk_size)

\* the sentence that does not fit is not carried over: temp_chunk = []
RECURSIVE SentenceLoopDropsOverflow(_, _, _, _, _, _)
SentenceLoopDropsOverflow(sentences, j, chunks, temp_chunk, temp_length, max_chunk_size) ==
    IF j > Len(sentences)
    THEN [chunks |-> chunks, temp_chunk |-> temp_chunk, temp_length |-> temp_length]
    ELSE LET sent == sentences[j]
         IN  IF temp_length + sent <= max_chunk_size
             THEN SentenceLoopDropsOverflow(sentences, j + 1, chunks,
                                            Append(temp_chunk, <<sent>>),
                                            temp_length + sent + 1, max_chunk_size)
             ELSE SentenceLoopDropsOverflow(sentences, j + 1,
                                            IF temp_chunk # <<>>
                                            THEN Append(chunks, Chunk(temp_chunk, 1))
                                            ELSE chunks,
                                            <<>>, 0, max_chunk_size)

\* lines 156-164 / 188-196: the sentences of an oversized paragraph from
\* sentence j on, packed greedily; returns chunks, temp_chunk and temp_length
RECURSIVE SentenceLoop(_, _, _, _, _, _)
SentenceLoop(sentences, j, chunks, temp_chunk, temp_length, max_chunk_size) ==
    IF j > Len(sentences)
    THEN [chunks |-> chunks, temp_chunk |-> temp_chunk, temp_length |-> temp_length]
    ELSE LET sent == sentences[j]
         IN  IF temp_length + sent <= max_chunk_size
             THEN SentenceLoop(sentences, j + 1, chunks, Append(temp_chunk, <<sent>>),
                               temp_length + sent + 1, max_chunk_size)
             ELSE SentenceLoop(sentences, j + 1,
                               IF temp_chunk # <<>>
                               THEN Append(chunks, Chunk(temp_chunk, 1)) ELSE chunks,
                               <<<<sent>>>>, sent, max_chunk_size)

\* chunks.append(sep.join(parts)) if parts
Flush(chunks, parts, sep) == IF parts # <<>> THEN Append(chunks, Chunk(parts, sep)) ELSE chunks

\* lines 141-177: merge_small_paragraphs, from paragraph i on
RECURSIVE MergeLoop(_, _, _, _, _, _)
MergeLoop(paragraphs, i, chunks, current_chunk, current_length, max_chunk_size) ==
    IF i > Len(paragraphs)
    THEN Flush(chunks, current_chunk, 2)
    ELSE LET para == paragraphs[i]
             para_length == UnitLen(para)
         IN  IF current_length + para_length <= max_chunk_size
             THEN MergeLoop(paragraphs, i + 1, chunks, Append(current_chunk, para),
                            current_length + para_length + 1, max_chunk_size)
             ELSE IF para_length > max_chunk_size
             THEN LET split == SentenceLoop(para, 1, Flush(chunks, current_chunk, 2),
                                            <<>>, 0, max_chunk_size)
                  IN  IF split.temp_chunk # <<>>
                      THEN MergeLoop(paragraphs, i + 1, split.chunks, split.temp_chunk,
                                     split.temp_length, max_chunk_size)
                      ELSE MergeLoop(paragraphs, i + 1, split.chunks, <<>>, 0,
                                     max_chunk_size)
             ELSE MergeLoop(paragraphs, i + 1, Flush(chunks, current_chunk, 2),
                            <<para>>, para_length, max_chunk_size)

\* lines 180-199: one chunk per paragraph, an oversized one split at sentences
RECURSIVE SplitLoop(_, _, _, _)
SplitLoop(paragraphs, i, chunks, max_chunk_size) ==
    IF i > Len(paragraphs) THEN chunks
    ELSE LET para == paragraphs[i]
         IN  IF UnitLen(para) <= max_chunk_size
             THEN SplitLoop(paragraphs, i + 1, Append(chunks, Chunk(<<para>>, 2)),
                            max_chunk_size)
             ELSE LET split == SentenceLoop(para, 1, chunks, <<>>, 0, max_chunk_size)
                  IN  SplitLoop(paragraphs, i + 1,
                                Flush(split.chunks, split.temp_chunk, 1), max_chunk_size)

\* paragraphs: the stripped, non-blank pieces re.split(r'\n\s*\n', text) gives,
\* each the list of the sentences re.split(r'(?<=[.!?])\s+', para) gives
paragraph_chunk_text(paragraphs, max_chunk_size, merge_small_paragraphs) ==
    IF paragraphs = <<>> THEN <<>>
    ELSE IF merge_small_paragraphs
    THEN MergeLoop(paragraphs, 1, <<>>, <<>>, 0, max_chunk_size)
    ELSE SplitLoop(paragraphs, 1, <<>>, max_chunk_size)

(***************************************************************************)
(* The chunking functions applied to arbitrary texts.                      *)
(***************************************************************************)
Sentences == [len : SentenceLens, emb : Embeddings]

\* tokenized texts of at most n sentences
SemanticTexts(n) == SeqsUpTo(Sentences, n)

ParagraphTexts(n) ==
    {t \in ChunkLists(SentenceLens, n, n) : \A i \in 1..Len(t) : t[i] # <<>>}

CkInit ==
    /\ ck_fn \in {"semantic_chunk_text", "paragraph_chunk_text"}
    /\ IF ck_fn = "semantic_chunk_text"
       THEN /\ ck_text \in SemanticTexts(MaxSentences)
            /\ ck_args \in [max_chunk_size : MaxChunkSizes,
                            similarity_threshold : SimilarityThresholds,
                            merge_small_paragraphs : {FALSE}]
       ELSE /\ ck_text \in ParagraphTexts(MaxSentences)
            /\ ck_args \in [max_chunk_size : MaxChunkSizes,
                            similarity_threshold : {50},
                            merge_small_paragraphs : BOOLEAN]
    /\ ck_pc = "call"
    /\ ck_out = <<>>

\* the chunking functions are not being exercised
CkIdle ==
    /\ ck_fn = "none"
    /\ ck_text = <<>>
    /\ ck_args = [max_chunk_size |-> 50, similarity_threshold |-> 50,
                  merge_small_paragraphs |-> FALSE]
    /\ ck_pc = "idle"
    /\ ck_out = <<>>

SemanticChunkText ==
    /\ ck_pc = "call"
    /\ ck_fn = "semantic_chunk_text"
    /\ ck_out' = semantic_chunk_text(ck_text, ck_args.similarity_threshold,
                                     ck_args.max_chunk_size)
    /\ ck_pc' = "returned"
    /\ UNCHANGED <<ck_fn, ck_text, ck_args>>
    /\ UNCHANGED not_ck

ParagraphChunkText ==
    /\ ck_pc = "call"
    /\ ck_fn = "paragraph_chunk_text"
    /\ ck_out' = paragraph_chunk_text(ck_text, ck_args.max_chunk_size,
                                      ck_args.merge_small_paragraphs)
    /\ ck_pc' = "returned"
    /\ UNCHANGED <<ck_fn, ck_text, ck_args>>
    /\ UNCHANGED not_ck

CkNext ==
    \/ SemanticChunkText
    \/ ParagraphChunkText

(***************************************************************************)
(* feature_extraction: ingestion.  ingest_paragraph.py and                 *)
(* ingest_semantic.py chunk the pages of two PDFs; ingest_landingai.py     *)
(* loads, filters and writes pre-segmented elements.                       *)
(***************************************************************************)
CarModels == <<"MG_Astor", "Tata_Tiago">>

MinChunkLength == 50
MinElementLength == 8

\* the text written for a chunk, known by its length: chunks come stripped
StrippedLen(chunk) == ChunkLen(chunk)

\* the chunks of one page, by the script's chunking function
PageChunks(strategy, text, arguments) ==
    IF strategy = "semantic_based"
    THEN semantic_chunk_text(text, arguments.similarity_threshold, arguments.max_chunk_size)
    ELSE paragraph_chunk_text(text, arguments.max_chunk_size,
                              arguments.merge_small_paragraphs)

\* the index is advanced for a dropped chunk too
RECURSIVE WritePageCountsDropped(_, _, _, _, _)
WritePageCountsDropped(collection, index, chunks, car_model, page_num) ==
    IF chunks = <<>> THEN [collection |-> collection, chunk_index |-> index]
    ELSE IF StrippedLen(chunks[1]) < MinChunkLength
    THEN WritePageCountsDropped(collection, index + 1, Tail(chunks), car_model, page_num)
    ELSE WritePageCountsDropped(
             Append(collection, [text |-> StrippedLen(chunks[1]), car_model |-> car_model,
                                 page_number |-> page_num, chunk_index |-> index]),
             index + 1, Tail(chunks), car_model, page_num)

\* ingest_pdf, the loop over the chunks of one page: a chunk shorter than 50
\* characters is skipped, the others are added with the running index
RECURSIVE WritePage(_, _, _, _, _)
WritePage(collection, index, chunks, car_model, page_num) ==
    IF chunks = <<>> THEN [collection |-> collection, chunk_index |-> index]
    ELSE IF StrippedLen(chunks[1]) < MinChunkLength
    THEN WritePage(collection, index, Tail(chunks), car_model, page_num)
    ELSE WritePage(
             Append(collection, [text |-> StrippedLen(chunks[1]), car_model |-> car_model,
                                 page_number |-> page_num, chunk_index |-> index]),
             index + 1, Tail(chunks), car_model, page_num)

\* clean_markdown: the anchor and id attributes removed, the rest stripped
clean_markdown(markdown_text) == markdown_text.body

\* load_and_merge_chunks from file f on
RECURSIVE LoadLoop(_, _, _, _)
LoadLoop(json_files, f, chunks, last_page) ==
    IF f > Len(json_files) THEN chunks
    ELSE LET data == json_files[f]
             shifted == [j \in 1..Len(data.chunks) |->
                            [data.chunks[j] EXCEPT !.grounding.page = @ + last_page]]
         IN  LoadLoop(json_files, f + 1, chunks \o shifted,
                      shifted[Len(shifted)].grounding.page)

load_and_merge_chunks(json_files) == LoadLoop(json_files, 1, <<>>, 0)

ElementTypes == {"text", "table", "figure"}

filter_and_clean_chunks(chunks) ==
    LET kept == SelectSeq(chunks, LAMBDA chunk :
                    /\ chunk.type \in ElementTypes
                    /\ clean_markdown(chunk.markdown) >= MinElementLength)
    IN  [k \in 1..Len(kept) |->
            [type |-> kept[k].type, grounding |-> kept[k].grounding,
             cleaned_text |-> clean_markdown(kept[k].markdown)]]

\* ingest_chunks: the objects of one document, indexed by enumerate
ingest_chunks(chunks, car_model) ==
    [k \in 1..Len(chunks) |->
        [text |-> chunks[k].cleaned_text, car_model |-> car_model,
         page_number |-> chunks[k].grounding.page, chunk_index |-> k - 1]]

(***************************************************************************)
(* Inputs of an ingestion run: two documents with a bounded total content. *)
(***************************************************************************)
\* lists of exactly k items, every item of size 1 at least and the sizes
\* adding up to `total` at most; of_size[n] is the set of items of size n
RECURSIVE SizedLists(_, _, _)
SizedLists(of_size, k, total) ==
    IF k = 0 THEN {<<>>}
    ELSE UNION {{<<t>> \o rest : t \in of_size[n],
                                 rest \in SizedLists(of_size, k - 1, total - n)} :
                    n \in 1..(total - (k - 1))}

\* the ways a list falls into the items of the first and of the second document
DocPairs(items, least) ==
    {<<SubSeq(items, 1, c), SubSeq(items, c + 1, Len(items))>> :
        c \in least..(Len(items) - least)}

\* extract_text_from_pdf of both PDFS: the non-blank pages, tokenized
PdfDocs(of_size, n) ==
    UNION {DocPairs(pages, 0) :
              pages \in UNION {SizedLists(of_size, k, n) : k \in 0..MaxPages}}

\* the sentences of the pages of an ingestion run: alike or unrelated
IngestSentences == [len : SentenceLens, emb : {<<1, 0, 0>>, <<0, 1, 1>>}]

\* both PDFs with n sentences at most altogether
SemanticDocs(n) == PdfDocs([m \in 1..n |-> [1..m -> IngestSentences]], n)

ParagraphDocs(n) ==
    PdfDocs([m \in 1..n |-> {t \in ParagraphTexts(m) : Len(Flatten(t)) = m}], n)

\* an element of a LandingAI parse, without its page: kept, too short once
\* cleaned, or of a type that is not ingested
ElementKinds ==
    {[type |-> "text", markdown |-> [anchor |-> TRUE, body |-> 8]],
     [type |-> "text", markdown |-> [anchor |-> TRUE, body |-> 7]],
     [type |-> "marginalia", markdown |-> [anchor |-> TRUE, body |-> 8]]}

\* data['chunks'] of a parse: m elements in page order, the first on page 1,
\* every further one on the same page or on the next
FileChunks(m) ==
    {[j \in 1..m |-> [type |-> kinds[j].type, markdown |-> kinds[j].markdown,
                      grounding |-> [page |-> on[j]]]] :
        kinds \in [1..m -> ElementKinds],
        on \in {f \in [1..m -> 1..m] :
                   /\ f[1] = 1
                   /\ \A j \in 1..(m - 1) : f[j + 1] \in {f[j], f[j] + 1}}}

\* the parses with m elements; `pages` is the page count of the PDF part the
\* file was parsed from, whose last page may hold no element
LandingFiles(m) ==
    {[pages |-> c[m].grounding.page + blank, chunks |-> c] :
        c \in FileChunks(m), blank \in {0, 1}}

\* ASTOR_MANUAL_FILES and TIAGO_MANUAL_FILES: one file at least per
\* document, n elements at most altogether
LandingDocs(n) ==
    UNION {DocPairs(list, 1) :
              list \in UNION {SizedLists([m \in 1..n |-> LandingFiles(m)], k, n) :
                                  k \in 2..n}}

Strategies == {"paragraph_based", "semantic_based", "landingai_based"}

InInit ==
    /\ in_strategy \in Strategies
    /\ CASE in_strategy = "semantic_based" ->
                /\ in_docs \in SemanticDocs(MaxSentences)
                /\ in_args \in [max_chunk_size : MaxChunkSizes,
                                similarity_threshold : SimilarityThresholds,
                                merge_small_paragraphs : {FALSE}]
         [] in_strategy = "paragraph_based" ->
                /\ in_docs \in ParagraphDocs(MaxSentences)
                /\ in_args \in [max_chunk_size : MaxChunkSizes,
                                similarity_threshold : {50},
                                merge_small_paragraphs : BOOLEAN]
         [] in_strategy = "landingai_based" ->
                /\ in_docs \in LandingDocs(MaxElements)
                /\ in_args = [max_chunk_size |-> 50, similarity_threshold |-> 50,
                              merge_small_paragraphs |-> FALSE]
    /\ in_pc = IF in_strategy = "landingai_based" THEN "load" ELSE "ingest_pdf"
    /\ in_doc = 1
    /\ in_page = 0
    /\ chunk_index = 0
    /\ in_chunks = <<>>
    /\ in_filtered = <<>>
    /\ in_collection = <<>>
    /\ in_log = <<>>

\* no ingestion script runs
InIdle ==
    /\ in_strategy = "none"
    /\ in_docs = <<>>
    /\ in_args = [max_chunk_size |-> 50, similarity_threshold |-> 50,
                  merge_small_paragraphs |-> FALSE]
    /\ in_pc = "idle"
    /\ in_doc = 1
    /\ in_page = 0
    /\ chunk_index = 0
    /\ in_chunks = <<>>
    /\ in_filtered = <<>>
    /\ in_collection = <<>>
    /\ in_log = <<>>

\* ingest_pdf: one iteration of the loop over pages
IngestPdfPage ==
    /\ in_pc = "ingest_pdf"
    /\ in_page < Len(in_docs[in_doc])
    /\ LET page_num == in_page + 1
           chunks == PageChunks(in_strategy, in_docs[in_doc][page_num], in_args)
           written == WritePage(in_collection, chunk_index, chunks,
                                CarModels[in_doc], page_num)
       IN  /\ in_collection' = written.collection
           /\ chunk_index' = written.chunk_index
           /\ in_log' = in_log \o [k \in 1..Len(chunks) |->
                                      [car_model |-> CarModels[in_doc], type |-> "text",
                                       text |-> StrippedLen(chunks[k])]]
    /\ in_page' = in_page + 1
    /\ UNCHANGED <<in_strategy, in_args, in_docs, in_pc, in_doc, in_chunks, in_filtered>>
    /\ UNCHANGED not_in

\* ingest_pdf returns; main() calls it for the next PDF, chunk_index = 0 again
IngestPdfReturns ==
    /\ in_pc = "ingest_pdf"
    /\ in_page = Len(in_docs[in_doc])
    /\ IF in_doc < Len(CarModels)
       THEN /\ in_doc' = in_doc + 1
            /\ in_page' = 0
            /\ chunk_index' = 0
            /\ in_pc' = in_pc
       ELSE /\ in_pc' = "done"
            /\ UNCHANGED <<in_doc, in_page, chunk_index>>
    /\ UNCHANGED <<in_strategy, in_args, in_docs, in_chunks, in_filtered, in_collection,
                   in_log>>
    /\ UNCHANGED not_in

\* the stage main() of ingest_landingai.py runs after `stage` for document d
NextStage(stage, d, following) ==
    IF d < Len(CarModels) THEN [in_pc |-> stage, in_doc |-> d + 1]
    ELSE [in_pc |-> following, in_doc |-> 1]

LoadAndMergeChunks ==
    /\ in_pc = "load"
    /\ LET chunks == load_and_merge_chunks(in_docs[in_doc])
       IN  /\ in_chunks' = Append(in_chunks, chunks)
           /\ in_log' = in_log \o [k \in 1..Len(chunks) |->
                                      [car_model |-> CarModels[in_doc],
                                       type |-> chunks[k].type,
                                       text |-> clean_markdown(chunks[k].markdown)]]
    /\ in_pc' = NextStage("load", in_doc, "filter").in_pc
    /\ in_doc' = NextStage("load", in_doc, "filter").in_doc
    /\ UNCHANGED <<in_strategy, in_args, in_docs, in_page, chunk_index, in_filtered,
                   in_collection>>
    /\ UNCHANGED not_in

FilterAndCleanChunks ==
    /\ in_pc = "filter"
    /\ in_filtered' = Append(in_filtered, filter_and_clean_chunks(in_chunks[in_doc]))
    /\ in_pc' = NextStage("filter", in_doc, "ingest").in_pc
    /\ in_doc' = NextStage("filter", in_doc, "ingest").in_doc
    /\ UNCHANGED <<in_strategy, in_args, in_docs, in_page, chunk_index, in_chunks,
                   in_collection, in_log>>
    /\ UNCHANGED not_in

IngestChunks ==
    /\ in_pc = "ingest"
    /\ in_collection' = in_collection \o ingest_chunks(in_filtered[in_doc], CarModels[in_doc])
    /\ in_pc' = NextStage("ingest", in_doc, "done").in_pc
    /\ in_doc' = NextStage("ingest", in_doc, "done").in_doc
    /\ UNCHANGED <<in_strategy, in_args, in_docs, in_page, chunk_index, in_chunks,
                   in_filtered, in_log>>
    /\ UNCHANGED not_in

InNext ==
    \/ IngestPdfPage
    \/ IngestPdfReturns
    \/ LoadAndMergeChunks
    \/ FilterAndCleanChunks
    \/ IngestChunks

(***************************************************************************)
(* evaluate.py: calculate_f1_score. A text is the list of its words in     *)
(* order, which is what str.split() makes of it.                           *)
(***************************************************************************)
Words == {"Brake", "brake", "OIL", "oil"}

\* str.lower() of one word
Lower(word) ==
    CASE word \in {"Brake", "brake"} -> "brake"
      [] word \in {"OIL", "oil"} -> "oil"

\* set(text.lower().split())
TokenSet(text) == {Lower(text[j]) : j \in 1..Len(text)}

\* set(text.split()): the words as written
calculate_f1_scoreCaseSensitive(generated, reference) ==
    LET gen_tokens == {generated[j] : j \in 1..Len(generated)}
        ref_tokens == {reference[j] : j \in 1..Len(reference)}
        common == gen_tokens \cap ref_tokens
        precision == Rat(Cardinality(common), Cardinality(gen_tokens))
        recall == Rat(Cardinality(common), Cardinality(ref_tokens))
    IN  IF gen_tokens = {} \/ ref_tokens = {} THEN Zero
        ELSE IF RAdd(precision, recall) = Zero THEN Zero
        ELSE RDiv(RMul(<<2, 1>>, RMul(precision, recall)), RAdd(precision, recall))

calculate_f1_score(generated, reference) ==
    LET gen_tokens == TokenSet(generated)
        ref_tokens == TokenSet(reference)
        common == gen_tokens \cap ref_tokens
        precision == Rat(Cardinality(common), Cardinality(gen_tokens))
        recall == Rat(Cardinality(common), Cardinality(ref_tokens))
    IN  IF gen_tokens = {} \/ ref_tokens = {} THEN Zero
        ELSE IF RAdd(precision, recall) = Zero THEN Zero
        ELSE RDiv(RMul(<<2, 1>>, RMul(precision, recall)), RAdd(precision, recall))

F1Init ==
    /\ f1_generated \in SeqsUpTo(Words, MaxWords)
    /\ f1_reference \in SeqsUpTo(Words, MaxWords)
    /\ f1_pc = "call"
    /\ f1_out = Zero

\* calculate_f1_score is not being exercised
F1Idle ==
    /\ f1_generated = <<>>
    /\ f1_reference = <<>>
    /\ f1_pc = "idle"
    /\ f1_out = Zero

CalculateF1Score ==
    /\ f1_pc = "call"
    /\ f1_pc' = "returned"
    /\ f1_out' = calculate_f1_score(f1_generated, f1_reference)
    /\ UNCHANGED <<f1_generated, f1_reference>>
    /\ UNCHANGED not_f1

F1Next == CalculateF1Score

(***************************************************************************)
(* Specifications.                                                         *)
(***************************************************************************)
MetricsInit == FnInit /\ EvIdle /\ AgIdle /\ SvIdle /\ CkIdle /\ InIdle /\ F1Idle

SpecMetrics == MetricsInit /\ [][FnNext]_vars

EvalInit == EvInit /\ FnIdle /\ AgIdle /\ SvIdle /\ CkIdle /\ InIdle /\ F1Idle

SpecEval == EvalInit /\ [][EvNext]_vars

AggregateInit == AgInit /\ FnIdle /\ EvIdle /\ SvIdle /\ CkIdle /\ InIdle /\ F1Idle

SpecAggregate == AggregateInit /\ [][AgNext]_vars

SearchInit == SvInit /\ FnIdle /\ EvIdle /\ AgIdle /\ CkIdle /\ InIdle /\ F1Idle

SpecSearch == SearchInit /\ [][SvNext]_vars

ChunkInit == CkInit /\ FnIdle /\ EvIdle /\ AgIdle /\ SvIdle /\ InIdle /\ F1Idle

SpecChunk == ChunkInit /\ [][CkNext]_vars

IngestInit == InInit /\ FnIdle /\ EvIdle /\ AgIdle /\ SvIdle /\ CkIdle /\ F1Idle

SpecIngest == IngestInit /\ [][InNext]_vars

TokenInit == F1Init /\ FnIdle /\ EvIdle /\ AgIdle /\ SvIdle /\ CkIdle /\ InIdle

SpecToken == TokenInit /\ [][F1Next]_vars

(***************************************************************************)
(* Properties.                                                             *)
(***************************************************************************)
\* the ground truth of the query each result was retrieved for
OwnGroundTruths(results) == [i \in 1..Len(results) |-> ground_truths[results[i].query_id]]

\* C1: with failed retrieval calls, the retriever metrics of the run equal
\* the metrics over the successful queries only, each judged against its own
\* query's relevant_chunks.
C1_FailedQueriesOmitted ==
    "retriever" \in DOMAIN metrics_output =>
        metrics_output["retriever"] =
            RetrieverMetrics(Unwrapped(SystemResponses(individual_results)),
                             OwnGroundTruths(individual_results),
                             Threshold, args.top_k)

\* the query ids of the search calls that returned, in call order
ReturnedIds ==
    LET returned == SelectSeq(search_calls, LAMBDA c : c.outcome = "returned")
    IN  [i \in 1..Len(returned) |-> returned[i].query_id]

\* C2: a search call that raises adds no entry and does not stop the loop:
\* individual_results holds one entry per call that returned, in
\* ground-truth order, and the loop ends only after every query was called.
C2_FailureSkipsOneQuery ==
    /\ [i \in 1..Len(individual_results) |-> individual_results[i].query_id] = ReturnedIds
    /\ [i \in 1..Len(search_calls) |-> search_calls[i].query_id] = [i \in 1..idx |-> i]
    /\ pc \notin {"retrieve", "idle"} => idx = Len(ground_truths)

C2_Witness ==
    /\ pc = "done"
    /\ \E i, j \in 1..Len(search_calls) :
           /\ i < j
           /\ search_calls[i].outcome = "raised"
           /\ search_calls[j].outcome = "returned"
    /\ Len(individual_results) = 1

\* the judging calls of one group that gave an answer
Answered(group) ==
    SelectSeq(judge_calls, LAMBDA c : c.group = group /\ c.outcome # "raise")

\* the average a group must report: null when no call gave an answer, else
\* the share of YES among the calls that did
ExpectedAverage(group) ==
    LET answered == Answered(group)
        yes == SelectSeq(answered, LAMBDA c : c.outcome = "YES")
    IN  IF answered = <<>> THEN <<>> ELSE <<Round3(Rat(Len(yes), Len(answered)))>>

\* the scores record of each judged result has the judged key exactly when
\* the call gave an answer, 1.0 for YES and 0.0 for NO
ScoresRecorded(group, key) ==
    \A k \in 1..Len(judge_calls) :
        judge_calls[k].group = group =>
            \E i \in 1..Len(individual_results) :
                /\ individual_results[i].query_id = judge_calls[k].query_id
                /\ LET scores == individual_results[i].scores
                   IN  CASE judge_calls[k].outcome = "raise" -> key \notin DOMAIN scores
                         [] judge_calls[k].outcome = "YES" ->
                                key \in DOMAIN scores /\ scores[key] = One
                         [] judge_calls[k].outcome = "NO" ->
                                key \in DOMAIN scores /\ scores[key] = Zero

\* C3: a judging call that raises yields no score: no entry in the scores
\* record, the query left out of numerator and denominator of the average,
\* a null average when every call raised; a NO is 0.0 and is counted.
C3_IndeterminateExcluded ==
    /\ ScoresRecorded("generator", "faithfulness")
    /\ ScoresRecorded("end_to_end", "context_recall")
    /\ "generator" \in DOMAIN metrics_output =>
           metrics_output["generator"].avg_faithfulness = ExpectedAverage("generator")
    /\ "end_to_end" \in DOMAIN metrics_output =>
           metrics_output["end_to_end"].avg_context_recall = ExpectedAverage("end_to_end")

C3_Witness ==
    /\ pc = "done"
    /\ \E a, b \in 1..Len(judge_calls) :
           /\ judge_calls[a].group = "generator" /\ judge_calls[a].outcome = "raise"
           /\ judge_calls[b].group = "generator" /\ judge_calls[b].outcome = "NO"
    /\ metrics_output["generator"].avg_faithfulness = <<0>>
    /\ \A k \in 1..Len(judge_calls) :
           judge_calls[k].group = "end_to_end" => judge_calls[k].outcome = "raise"
    /\ "end_to_end" \in DOMAIN metrics_output
    /\ metrics_output["end_to_end"].avg_context_recall = <<>>
    /\ Len(individual_results) = 2

\* C4: calculate_recall and calculate_map return values in [0,1] for every
\* nonempty list of query results.
C4_RecallMapInUnit ==
    (fn_pc = "returned" /\ fn_results # <<>>) =>
        InUnit(fn_out.recall) /\ InUnit(fn_out.map)

\* DCG and IDCG of query i of the inputs of the metric functions
FnRelevances(i) ==
    Relevances(Take(fn_results[i].retrieved_chunks, fn_top_k),
               fn_gts[i].relevant_chunks, Threshold)

\* C5: calculate_hit_rate, calculate_ndcg and calculate_mrr return values in
\* [0,1] for every nonempty list of query results, and no query's DCG
\* exceeds its IDCG.
C5_HitNdcgMrrInUnit ==
    (fn_pc = "returned" /\ fn_results # <<>>) =>
        /\ InUnit(fn_out.hit_rate)
        /\ InUnit(fn_out.ndcg)
        /\ InUnit(fn_out.mrr)
        /\ \A i \in 1..ZipLen(fn_results, fn_gts) :
               DCG(FnRelevances(i)) <= DCG(SortedReverse(FnRelevances(i)))

C5_Witness ==
    /\ fn_pc = "returned"
    /\ fn_results # <<>> /\ fn_gts # <<>>
    /\ DCG(FnRelevances(1)) < DCG(SortedReverse(FnRelevances(1)))
    /\ RLess(Zero, fn_out.ndcg) /\ RLess(fn_out.ndcg, One)
    /\ RLess(Zero, fn_out.mrr) /\ RLess(fn_out.mrr, One)
    /\ fn_out.hit_rate = One

\* C6: each of the five functions returns 0.0 for an empty list of query
\* results; calculate_recall and calculate_map also return 0.0 when every
\* query has an empty relevant_chunks list.
C6_EmptyInputsGiveZero ==
    fn_pc = "returned" =>
        /\ fn_results = <<>> =>
               /\ fn_out.hit_rate = Zero
               /\ fn_out.recall = Zero
               /\ fn_out.ndcg = Zero
               /\ fn_out.mrr = Zero
               /\ fn_out.map = Zero
        /\ (\A i \in 1..Len(fn_gts) : fn_gts[i].relevant_chunks = <<>>) =>
               fn_out.recall = Zero /\ fn_out.map = Zero

C6_Witness ==
    /\ fn_pc = "returned"
    /\ fn_results = <<>>
    /\ fn_gts # <<>>

\* the .json files of the results directory
JsonFiles == {f \in DOMAIN ag_dir : ag_dir[f].ext = "json"}

AggregateLoaded == ag_pc \notin {"load", "idle"}

\* C7: for N >= 1 .json artifact files load_experiment_results returns a
\* table of exactly N rows, one per file, in sorted file-name order,
\* whatever metric groups each artifact holds.
C7_OneRowPerArtifact ==
    (AggregateLoaded /\ JsonFiles # {} /\ \A f \in JsonFiles : ag_dir[f].valid) =>
        /\ ag_df # <<>>
        /\ Len(ag_df[1].rows) = Cardinality(JsonFiles)
        /\ {ag_df[1].rows[i]["source_file"][1] : i \in 1..Len(ag_df[1].rows)} = JsonFiles
        /\ \A i, j \in 1..Len(ag_df[1].rows) :
               i < j => ag_df[1].rows[i]["source_file"][1]
                            < ag_df[1].rows[j]["source_file"][1]

C7_Witness ==
    /\ ag_pc = "done"
    /\ Cardinality(JsonFiles) = 2
    /\ \A f \in JsonFiles : ag_dir[f].valid
    /\ \E f, g \in JsonFiles : ag_dir[f].groups = {"retriever"} /\ ag_dir[g].groups = Groups
    /\ Len(ag_df[1].rows) = 2

\* C8: the aggregated table always has the full column list in the fixed
\* order, whichever metric groups the artifacts hold; a group absent from an
\* artifact gives null cells in that artifact's row.
C8_FullColumnList ==
    (AggregateLoaded /\ ag_df # <<>> /\ Len(ag_df[1].rows) > 0) =>
        /\ ag_df[1].columns = column_order
        /\ \A i \in 1..Len(ag_df[1].rows) :
               LET file == ag_dir[ag_df[1].rows[i]["source_file"][1]]
               IN  \A col \in Range(column_order) \ RowKeys(file) :
                       ag_df[1].rows[i][col] = "NaN"

\* C9: with no .json file load_experiment_results returns no table and main
\* reports "No results to aggregate", writes no table and ends normally; the
\* same outcome is reached when every file fails to load.
C9_NothingToAggregate ==
    (AggregateLoaded /\ \A f \in JsonFiles : ~ag_dir[f].valid) =>
        /\ ag_pc = "done"
        /\ ag_stdout = <<"No results to aggregate">>
        /\ ag_csv = <<>>
        /\ JsonFiles = {} => ag_df = <<>>

C9_Witness ==
    /\ ag_pc = "done"
    /\ JsonFiles = {}
    /\ DOMAIN ag_dir # {}
    /\ ag_stdout = <<"No results to aggregate">>

\* C10: a strategy that is not configured is answered 400, a configured
\* strategy whose collection does not exist 503; in both cases no
\* rewriting, retrieval or generation call is made and the existence check
\* is made at most once.
C10_ConfigurationErrors ==
    /\ (sv_pc # "idle" /\ Strategy \notin sv_config) =>
           /\ sv_calls = <<>>
           /\ sv_pc \in {"validate", "done"}
           /\ sv_pc = "done" => sv_response = <<[code |-> 400, status |-> "error"]>>
    /\ (sv_pc # "idle" /\ Strategy \in sv_config /\ sv_collection = "missing") =>
           /\ sv_pc \in {"validate", "done"}
           /\ sv_pc = "done" =>
                  /\ sv_response = <<[code |-> 503, status |-> "error"]>>
                  /\ sv_calls = <<"collections.exists">>

C10_Witness ==
    /\ sv_pc = "done"
    /\ sv_request.strategy = ""
    /\ sv_response = <<[code |-> 503, status |-> "error"]>>

\* chunk r of query i of the inputs lies within top_k and some ground-truth
\* chunk of the query is at least Threshold similar to it
FnRelevant(i, r) ==
    /\ r <= fn_top_k
    /\ r \in 1..Len(fn_results[i].retrieved_chunks)
    /\ \E g \in 1..Len(fn_gts[i].relevant_chunks) :
           cos_sim(fn_results[i].retrieved_chunks[r], fn_gts[i].relevant_chunks[g])
               >= Threshold

FnHits(i) == {r \in 1..fn_top_k : FnRelevant(i, r)}

\* the queries the metric functions pair with a ground truth, in order
FnQueries == [i \in 1..ZipLen(fn_results, fn_gts) |-> i]

FnWithGroundTruth == SelectSeq(FnQueries, LAMBDA i : fn_gts[i].relevant_chunks # <<>>)

\* 1/r for the first relevant rank r within top_k, 0 when there is none
ReciprocalRank(i) ==
    CHOOSE v \in {Zero} \cup {<<1, r>> : r \in 1..fn_top_k} :
        \/ FnHits(i) = {} /\ v = Zero
        \/ \E r \in FnHits(i) : (\A q \in 1..(r - 1) : q \notin FnHits(i)) /\ v = <<1, r>>

\* C13: a query's reciprocal rank is 1/r for the first relevant chunk among
\* the first top_k, 0 when none of them is relevant; it is 1.0 when the
\* first chunk matches and a relevant chunk beyond top_k adds nothing.
C13_ReciprocalRank ==
    fn_pc = "returned" =>
        /\ fn_out.mrr = Mean([k \in 1..Len(FnQueries) |-> ReciprocalRank(k)])
        /\ (Len(FnQueries) = 1 /\ Len(fn_results) = 1) =>
               /\ FnRelevant(1, 1) => fn_out.mrr = One
               /\ FnHits(1) = {} => fn_out.mrr = Zero

C13_Witness ==
    /\ fn_pc = "returned"
    /\ Len(fn_results) = 1 /\ Len(fn_gts) = 1
    /\ fn_top_k = 1
    /\ Len(fn_results[1].retrieved_chunks) = 2
    /\ is_relevant_chunk(fn_results[1].retrieved_chunks[2], fn_gts[1].relevant_chunks, Threshold)
    /\ fn_out.mrr = Zero

\* C14: a query's NDCG is 0.0 when none of its chunks within top_k is
\* relevant or its retrieved list is empty, and the function returns: when
\* that is so for every query the mean is 0.0, and otherwise only the
\* queries with a relevant chunk add to the mean.
C14_NdcgZeroWithoutRelevant ==
    (fn_pc = "returned" /\ Len(FnQueries) > 0) =>
        LET scoring == SelectSeq(FnQueries, LAMBDA i : FnHits(i) # {})
        IN  /\ scoring = <<>> => fn_out.ndcg = Zero
            /\ RLeq(fn_out.ndcg, Rat(Len(scoring), Len(FnQueries)))

C14_Witness ==
    /\ fn_pc = "returned"
    /\ Len(fn_results) = 2 /\ Len(fn_gts) = 2
    /\ fn_results[1].retrieved_chunks = <<>>
    /\ fn_results[2].retrieved_chunks # <<>>
    /\ fn_gts[2].relevant_chunks # <<>>
    /\ FnHits(2) = {}
    /\ fn_out.ndcg = Zero

\* C19: a query's recall is the number of relevant chunks within top_k,
\* each counted, over the number of its ground-truth chunks; the mean runs
\* over the queries whose relevant_chunks is not empty.
C19_RecallPerQuery ==
    fn_pc = "returned" =>
        LET recall(i) == Rat(Cardinality(FnHits(i)), Len(fn_gts[i].relevant_chunks))
            total == RSum([k \in 1..Len(FnWithGroundTruth) |-> recall(FnWithGroundTruth[k])])
        IN  IF FnWithGroundTruth = <<>> THEN fn_out.recall = Zero
            ELSE fn_out.recall = RDivInt(total, Len(FnWithGroundTruth))

C19_Witness ==
    /\ fn_pc = "returned"
    /\ Len(fn_results) = 2 /\ Len(fn_gts) = 2
    /\ fn_gts[1].relevant_chunks = <<>>
    /\ Len(fn_gts[2].relevant_chunks) = 1
    /\ Cardinality(FnHits(2)) = 2
    /\ fn_out.recall = <<2, 1>>

\* C20: a query's average precision is the sum over the relevant ranks r
\* within top_k of (relevant chunks at ranks 1..r) / r, over the number of
\* its ground-truth chunks; the mean runs over the queries whose
\* relevant_chunks is not empty.
C20_AveragePrecisionPerQuery ==
    fn_pc = "returned" =>
        LET precision(i, r) == Rat(Cardinality({q \in FnHits(i) : q <= r}), r)
            ap(i) == RDivInt(RSum([r \in 1..fn_top_k |->
                                      IF r \in FnHits(i) THEN precision(i, r) ELSE Zero]),
                             Len(fn_gts[i].relevant_chunks))
            total == RSum([k \in 1..Len(FnWithGroundTruth) |-> ap(FnWithGroundTruth[k])])
        IN  IF FnWithGroundTruth = <<>> THEN fn_out.map = Zero
            ELSE fn_out.map = RDivInt(total, Len(FnWithGroundTruth))

C20_Witness ==
    /\ fn_pc = "returned"
    /\ Len(fn_results) = 1 /\ Len(fn_gts) = 1
    /\ Len(fn_gts[1].relevant_chunks) = 2
    /\ FnHits(1) = {2}
    /\ fn_out.map = <<1, 4>>

\* the query ids of the judging calls of one group, in call order
JudgedIds(group) ==
    LET calls == SelectSeq(judge_calls, LAMBDA c : c.group = group)
    IN  [k \in 1..Len(calls) |-> calls[k].query_id]

ResultIds == [i \in 1..Len(individual_results) |-> individual_results[i].query_id]

RunEnded == pc \in {"done", "crashed"}

\* C17: one search call per ground-truth query, in ground-truth order and
\* never repeated; when the run has ended, every query that produced a
\* result has had one judging call for each requested group among generator
\* and end_to_end, and no judging call was made for a group not requested.
C17_CallsPerQuery ==
    /\ [i \in 1..Len(search_calls) |-> search_calls[i].query_id] = [i \in 1..idx |-> i]
    /\ pc \notin {"retrieve", "idle"} => Len(search_calls) = Len(ground_truths)
    /\ RunEnded =>
           \A group \in {"generator", "end_to_end"} :
               JudgedIds(group) = IF group \in args.metrics THEN ResultIds ELSE <<>>

\* what C17 says of the runs that reach the end of main()
C17_CompletedRuns ==
    pc = "done" =>
        \A group \in {"generator", "end_to_end"} :
            JudgedIds(group) = IF group \in args.metrics THEN ResultIds ELSE <<>>

\* a chunk that is one sentence and nothing else
SingleSentence(chunk) == Len(chunk.parts) = 1 /\ Len(chunk.parts[1]) = 1

SemanticReturned == ck_pc = "returned" /\ ck_fn = "semantic_chunk_text"

\* C12: semantic_chunk_text returns no chunk for no sentence, one
\* one-sentence chunk for one sentence; for two sentences one chunk holding
\* both when their similarity is at least the threshold and the two fit the
\* size limit as one chunk, otherwise one chunk per sentence in input order.
C12_SemanticSmallInputs ==
    SemanticReturned =>
        LET lens == [i \in 1..Len(ck_text) |-> ck_text[i].len]
            both == Chunk(<<<<lens[1]>>, <<lens[2]>>>>, 1)
        IN  /\ Len(ck_text) = 0 => ck_out = <<>>
            /\ Len(ck_text) = 1 => ck_out = <<Chunk(<<<<lens[1]>>>>, 1)>>
            /\ Len(ck_text) = 2 =>
                   IF /\ SimilarAtLeast(ck_text[1].emb, ck_text[2].emb,
                                        ck_args.similarity_threshold)
                      /\ ChunkLen(both) <= ck_args.max_chunk_size
                   THEN ck_out = <<both>>
                   ELSE ck_out = <<Chunk(<<<<lens[1]>>>>, 1), Chunk(<<<<lens[2]>>>>, 1)>>

\* C15: every chunk paragraph_chunk_text returns has at most max_chunk_size
\* characters unless it is a single sentence that alone exceeds the limit.
C15_ParagraphChunkSize ==
    (ck_pc = "returned" /\ ck_fn = "paragraph_chunk_text") =>
        \A k \in 1..Len(ck_out) :
            \/ ChunkLen(ck_out[k]) <= ck_args.max_chunk_size
            \/ SingleSentence(ck_out[k])

\* C16: every chunk of two or more sentences semantic_chunk_text returns
\* has at most max_chunk_size characters.
C16_SemanticChunkSize ==
    SemanticReturned =>
        \A k \in 1..Len(ck_out) :
            Len(ck_out[k].parts) >= 2 => ChunkLen(ck_out[k]) <= ck_args.max_chunk_size

\* the objects written for one document, in the order they were added
Written(car_model) == SelectSeq(in_collection, LAMBDA o : o.car_model = car_model)

\* the minimum length of the running script
MinLength == IF in_strategy = "landingai_based" THEN MinElementLength ELSE MinChunkLength

\* the chunks of one document that are long enough (and of an ingested
\* type), in reading order
Admitted(car_model) ==
    SelectSeq(in_log, LAMBDA c : /\ c.car_model = car_model
                                 /\ c.type \in ElementTypes
                                 /\ c.text >= MinLength)

\* C11: the chunk_index values written for a document are 0, 1, 2, ... in
\* reading order without gap or repeat: the written chunks are the chunks
\* of the document that reach the minimum length, in their order, a dropped
\* chunk takes no index, the count starts at 0 for each document and every
\* written text has the minimum length at least.
C11_ChunkIndexSequence ==
    \A d \in 1..Len(CarModels) :
        LET written == Written(CarModels[d])
            admitted == Admitted(CarModels[d])
        IN  /\ \A k \in 1..Len(written) :
                   /\ written[k].chunk_index = k - 1
                   /\ written[k].text >= MinLength
            /\ Len(written) <= Len(admitted)
            /\ \A k \in 1..Len(written) : written[k].text = admitted[k].text
            /\ in_pc = "done" => Len(written) = Len(admitted)

C11_Witness ==
    /\ in_pc = "done"
    /\ in_strategy = "semantic_based"
    /\ Len(Written(CarModels[1])) = 1
    /\ Len(Written(CarModels[2])) = 1
    /\ \E k \in 1..Len(in_log) :
           /\ in_log[k].car_model = CarModels[1]
           /\ in_log[k].text < MinChunkLength
           /\ \E later \in (k + 1)..Len(in_log) :
                  /\ in_log[later].car_model = CarModels[1]
                  /\ in_log[later].text >= MinChunkLength

\* the page of element k of document d that the claim promises: its page in
\* its own file plus the pages of all files before it
RECURSIVE GlobalPages(_, _, _)
GlobalPages(json_files, f, pages_before) ==
    IF f > Len(json_files) THEN <<>>
    ELSE [j \in 1..Len(json_files[f].chunks) |->
              json_files[f].chunks[j].grounding.page + pages_before]
         \o GlobalPages(json_files, f + 1, pages_before + json_files[f].pages)

\* C18: load_and_merge_chunks gives each element the page of its own file
\* plus the total number of pages of all preceding files of the document.
C18_GlobalPageNumbers ==
    \A d \in 1..Len(in_chunks) :
        [k \in 1..Len(in_chunks[d]) |-> in_chunks[d][k].grounding.page]
            = GlobalPages(in_docs[d], 1, 0)

\* C21: a query is a hit exactly when one of its first top_k chunks is
\* relevant; it counts once however many are, a relevant chunk beyond top_k
\* does not count, and the hit rate is the hits over the number of results.
C21_HitRate ==
    (fn_pc = "returned" /\ fn_results # <<>>) =>
        LET hits == {i \in 1..Len(FnQueries) : FnHits(i) # {}}
        IN  fn_out.hit_rate = Rat(Cardinality(hits), Len(fn_results))

C21_Witness ==
    /\ fn_pc = "returned"
    /\ Len(fn_results) = 2 /\ Len(fn_gts) = 2
    /\ Cardinality(FnHits(1)) = 2
    /\ fn_out.hit_rate = <<1, 2>>

\* C22: is_relevant_chunk is true exactly when some ground-truth text is at
\* least Threshold similar to the candidate, a similarity equal to the
\* threshold included, and false for an empty ground-truth list; seen on a
\* run of one query with one retrieved chunk, whose hit rate is that verdict.
C22_RelevantChunk ==
    (/\ fn_pc = "returned"
     /\ Len(fn_results) = 1 /\ Len(fn_gts) = 1
     /\ Len(fn_results[1].retrieved_chunks) = 1) =>
        LET candidate == fn_results[1].retrieved_chunks[1]
            ground_truth_chunks == fn_gts[1].relevant_chunks
            similar == \E g \in 1..Len(ground_truth_chunks) :
                           cos_sim(candidate, ground_truth_chunks[g]) >= Threshold
        IN  /\ fn_out.hit_rate = IF similar THEN One ELSE Zero
            /\ ground_truth_chunks = <<>> => fn_out.hit_rate = Zero

C22_Witness ==
    /\ fn_pc = "returned"
    /\ Len(fn_results) = 1 /\ Len(fn_gts) = 1
    /\ fn_results[1].retrieved_chunks = <<"A2">>
    /\ fn_gts[1].relevant_chunks = <<"B", "A">>
    /\ cos_sim("A2", "A") = Threshold
    /\ fn_out.hit_rate = One

C24_NullCitationsAreNoChunks ==
    HasNullChunks(individual_results) =>
        /\ pc # "crashed"
        /\ pc = "done" => artifact # <<>>

\* C25: once the aggregated table is saved, main() run without --summary
\* ends normally, whichever metric groups the artifacts hold.
C25_ReportEndsNormally ==
    (ag_csv # <<>> /\ ~ag_args.summary) => ag_pc \in {"report", "done"}

\* the text of a chunk: its sentences in order, with the separator written
\* between two of them (1 for " ", 2 for a blank line) as a negative number
RECURSIVE Joined(_, _)
Joined(items, sep) ==
    IF items = <<>> THEN <<>>
    ELSE IF Len(items) = 1 THEN items[1]
    ELSE items[1] \o <<0 - sep>> \o Joined(Tail(items), sep)

ChunkText(chunk) ==
    Joined([p \in 1..Len(chunk.parts) |->
               Joined([j \in 1..Len(chunk.parts[p]) |-> <<chunk.parts[p][j]>>], 1)],
           chunk.sep)

ChunkTexts(chunks) == [k \in 1..Len(chunks) |-> ChunkText(chunks[k])]

\* C26: for a text of one paragraph longer than max_chunk_size,
\* paragraph_chunk_text returns the same chunks in both merge modes.
C26_MergeModeIrrelevantWhenOversized ==
    (/\ ck_pc = "returned" /\ ck_fn = "paragraph_chunk_text"
     /\ Len(ck_text) = 1
     /\ UnitLen(ck_text[1]) > ck_args.max_chunk_size) =>
        ChunkTexts(ck_out)
            = ChunkTexts(paragraph_chunk_text(ck_text, ck_args.max_chunk_size,
                                              ~ck_args.merge_small_paragraphs))

\* the sentences read across a list of chunks, in order
ChunkSentences(chunks) == Flatten([k \in 1..Len(chunks) |-> Flatten(chunks[k].parts)])

\* C27: in either merge mode the sentences of the paragraphs of the text, in
\* input order, are the sentences read across the chunks
\* paragraph_chunk_text returns, and no returned chunk is empty.
C27_ParagraphTextPreserved ==
    (ck_pc = "returned" /\ ck_fn = "paragraph_chunk_text") =>
        /\ ChunkSentences(ck_out) = Flatten(ck_text)
        /\ \A k \in 1..Len(ck_out) : ck_out[k].parts # <<>> /\ ChunkLen(ck_out[k]) > 0

C27_Witness ==
    /\ ck_pc = "returned" /\ ck_fn = "paragraph_chunk_text"
    /\ ck_args.merge_small_paragraphs
    /\ ck_text = <<<<60, 20>>, <<20>>>>
    /\ Len(ck_out) = 2
    /\ ChunkText(ck_out[2]) = <<20, -2, 20>>

\* query i has a relevant chunk within top_k and none of its relevant chunks
\* within top_k comes after an irrelevant one
FnRankedPerfectly(i) ==
    /\ FnHits(i) # {}
    /\ \A r \in FnHits(i) : \A q \in 1..(r - 1) : q \in FnHits(i)

\* C28: a query with a relevant chunk within top_k and every relevant chunk
\* ranked before every irrelevant one has NDCG 1, however many of its
\* ground-truth chunks were not retrieved; so the mean is 1 when every
\* query is such a query.
C28_NdcgIdealFromRetrieved ==
    (/\ fn_pc = "returned"
     /\ Len(FnQueries) > 0
     /\ \A i \in 1..Len(FnQueries) : FnRankedPerfectly(i)) => fn_out.ndcg = One

C28_Witness ==
    /\ fn_pc = "returned"
    /\ Len(fn_results) = 1 /\ Len(fn_gts) = 1
    /\ fn_results[1].retrieved_chunks = <<"A2">>
    /\ fn_gts[1].relevant_chunks = <<"A", "B">>
    /\ fn_out.recall = <<1, 2>>
    /\ fn_out.ndcg = One

\* for every paired query of the inputs: its reciprocal rank is positive
\* exactly when its NDCG is, and exactly when it is a hit
FnPerQueryAgree ==
    \A i \in 1..Len(FnQueries) :
        LET retrieved_chunks == Take(fn_results[i].retrieved_chunks, fn_top_k)
            gt_chunks == fn_gts[i].relevant_chunks
            rr == QueryRR(retrieved_chunks, gt_chunks, Threshold)
            ndcg == QueryNDCG(retrieved_chunks, gt_chunks, Threshold)
        IN  /\ rr # Zero <=> ndcg # Zero
            /\ rr # Zero <=> FnHits(i) # {}

\* the same seen in the returned values when there is one query
FnSingleQueryAgree ==
    (Len(fn_results) = 1 /\ Len(fn_gts) = 1) =>
        /\ fn_out.mrr # Zero <=> fn_out.ndcg # Zero
        /\ fn_out.mrr # Zero <=> fn_out.hit_rate = One

C29_RunMrrBelowHitRate ==
    /\ Len(individual_results) <= Len(ground_truths)
    /\ "retriever" \in DOMAIN metrics_output =>
           /\ metrics_output["retriever"].mrr <= metrics_output["retriever"].hit_rate
           /\ metrics_output["retriever"].mrr = 0
                  <=> metrics_output["retriever"].hit_rate = 0

\* the collaborator calls the handler has made
SvCalled == {sv_calls[k] : k \in 1..Len(sv_calls)}

\* C30: the handler retrieves and generates only for the car model MG_Astor
\* or Tata_Tiago; while no model is named, and when the handler answers
\* not_available, it has made no vector-store query and no generation call;
\* a query the patterns match gets its model from the patterns and the
\* collaborator is asked for a rewrite only.
C30_CarModelIsKnown ==
    /\ (SvCalled \cap {"search_weaviate", "generate_answer"} # {}
            \/ sv_pc \in {"retrieve", "generate"}) =>
           sv_car_model \in {<<"MG_Astor">>, <<"Tata_Tiago">>}
    /\ (sv_response # <<>> /\ sv_response[1].status = "not_available") =>
           /\ detect_car_model(sv_request.query) = <<>>
           /\ "detect_and_rewrite" \in SvCalled
           /\ sv_car_model = <<>>
           /\ SvCalled \cap {"search_weaviate", "generate_answer"} = {}
    /\ detect_car_model(sv_request.query) # <<>> =>
           /\ "detect_and_rewrite" \notin SvCalled
           /\ sv_car_model \in {<<>>, detect_car_model(sv_request.query)}
           /\ sv_car_model # <<>> => "rewrite_query" \in SvCalled
    /\ detect_car_model(sv_request.query) = <<>> => "rewrite_query" \notin SvCalled

C30_Witness ==
    /\ sv_pc = "done"
    /\ sv_request.query = {}
    /\ sv_calls = <<"collections.exists", "detect_and_rewrite">>
    /\ sv_response = <<[code |-> 200, status |-> "not_available"]>>

====
